---- MODULE Spec2Model ----
(***************************************************************************)
(* A model of opentype.js: the type encoders (types.js), the byte readers  *)
(* and the stateful Parser, and the parse entry points that bind the       *)
(* tables of a font file into a Font.                                      *)
(*                                                                         *)
(* Numbers.  TLC integers are 32 bits wide, JavaScript numbers are not.    *)
(* A value that fits in a signed 32-bit integer is a plain integer.  The   *)
(* arguments of the 32-bit encoders and the results of the 32-bit readers  *)
(* can leave that range, so they are held as two limbs [hi, lo] standing   *)
(* for hi * 2^16 + lo with lo in 0..65535.                                 *)
(***************************************************************************)
EXTENDS Integers, Sequences, FiniteSets, TLC

VARIABLES
    encType,        \* the encoder called, or "sizeOf" for a sizeOf.T(v) call
    encArg,         \* its argument (<<T, v>> for a sizeOf call)
    encOut,         \* what it returned: Ok(value) or Throw(message)
    encRead,        \* the paired reader applied to the returned bytes
    encPc,          \* "call" while the call is pending, "done" once it returned
    pDataView,      \* Parser: this.dataView, the bytes of the view
    pOffset,        \* Parser: this.offset, the absolute base offset
    pRelativeOffset, \* Parser: this.relativeOffset, the running relative cursor
    lastOp,         \* Parser: the method called last ("none" before any call)
    lastType,       \* Parser: the data type it was called for
    lastStart,      \* Parser: the cursor held just before that call
    lastRes,        \* Parser: what the call returned, or the error it threw
    consumed,       \* Parser: widths of the fields read or skipped so far
    fontEntry,      \* the parse entry point called: "parseBuffer" or "parseFont"
    fontIn,         \* the font file handed to it
    fontRes,        \* the Font it returned or the error it threw
    fontPc,         \* "call" while the call is pending, "done" once it returned
    ldEnv,          \* load: "node" (fs.readFile) or "browser" (XMLHttpRequest)
    ldOutcome,      \* load: what the file system or the network will answer
    ldPc,           \* load: "idle", "pending", "done", "thrown" or "failed"
    ldCalls,        \* load: the invocations of the callback, in order
    gsGlyphs,       \* GlyphSet: this.glyphs, index -> loader, Glyph or undefined
    gsRuns,         \* GlyphSet: how often the loader of each index has run
    gsDecodes,      \* GlyphSet: how often the body of each glyph was decoded
    gsGot,          \* GlyphSet: the objects get has returned, per index
    gsPaths,        \* GlyphSet: the paths the path requests returned, per index
    gsLast,         \* GlyphSet: the last operation and what it returned
    fnName,         \* table functions: the function called
    fnArg,          \* table functions: its arguments
    fnOut,          \* table functions: what it returned, or the error it threw
    fnPc            \* "call" while the call is pending, "done" once it returned

encVars == <<encType, encArg, encOut, encRead, encPc>>

parserVars ==
    <<pDataView, pOffset, pRelativeOffset, lastOp, lastType, lastStart, lastRes, consumed>>

fontVars == <<fontEntry, fontIn, fontRes, fontPc>>

loadVars == <<ldEnv, ldOutcome, ldPc, ldCalls>>

glyphSetVars == <<gsGlyphs, gsRuns, gsDecodes, gsGot, gsPaths, gsLast>>

fnVars == <<fnName, fnArg, fnOut, fnPc>>

vars == <<encVars, parserVars, fontVars, loadVars, glyphSetVars, fnVars>>

\* What an operation of one component leaves alone: the other components.
notEnc == <<parserVars, fontVars, loadVars, glyphSetVars, fnVars>>
notParser == <<encVars, fontVars, loadVars, glyphSetVars, fnVars>>
notFont == <<encVars, parserVars, loadVars, glyphSetVars, fnVars>>
notLoad == <<encVars, parserVars, fontVars, glyphSetVars, fnVars>>
notGlyphSet == <<encVars, parserVars, fontVars, loadVars, fnVars>>
notFn == <<encVars, parserVars, fontVars, loadVars, glyphSetVars>>

(***************************************************************************)
(* Bounds of the model.                                                    *)
(***************************************************************************)
Radius == 2         \* inputs are taken within Radius of every breakpoint
MaxItems == 3       \* longest short item list handed to encode.INDEX
MaxBuf == 9         \* longest byte buffer a Parser is put on
MaxBase == 1        \* largest base offset of a Parser
MaxSkip == 2        \* largest amount handed to Parser.skip
MaxCursor == 12     \* calls are taken while the cursor is at most this
MaxTables == 3      \* most records in the table directory of a font file
MaxGlyphs == 3      \* number of indices of a GlyphSet
MaxRuns == 2        \* a loader or a decoder is run at most this often
MaxPassGlyphs == 2  \* most records of a glyf table decoded pass by pass
MaxCut == 2         \* most bytes missing at the end of such a table
MaxContourLen == 4  \* most points of a contour handed to glyphToPath
MaxSidCalls == 4    \* most calls made on one strings list

(***************************************************************************)
(* JavaScript arithmetic on 32-bit integers.                               *)
(***************************************************************************)
\* x >> n on a value already in the signed 32-bit range.
Shr(x, n) == x \div (2 ^ n)

\* x & 0xFF.
And255(x) == x % 256

\* x << 8 for the small non-negative values the encoders shift.
Shl8(x) == x * 256

\* A number held as two limbs.
W(h, l) == [hi |-> h, lo |-> l]

\* ToInt32, the conversion every bitwise operator applies to its operand.
ToInt32(w) ==
    LET h == w.hi % 65536
    IN  (IF h >= 32768 THEN h - 65536 ELSE h) * 65536 + w.lo

\* The limbs of a plain integer.
ToWide(x) == W(x \div 65536, x % 65536)

(***************************************************************************)
(* Results: a returned value or a thrown error.                            *)
(***************************************************************************)
Ok(b) == [ok |-> TRUE, v |-> b, msg |-> ""]
Throw(m) == [ok |-> FALSE, v |-> <<>>, msg |-> m]

\* check.argument(predicate, message) followed by the rest of the function.
check_argument(predicate, message, rest) ==
    IF predicate THEN rest ELSE Throw(message)

LIMIT16 == 32768
LIMIT32 == W(32768, 0)

(***************************************************************************)
(* OpenType data types.                                                    *)
(***************************************************************************)
BYTE(v) ==
    check_argument(v >= 0 /\ v <= 255, "Byte value should be between 0 and 255.", Ok(<<v>>))

USHORT(v) == Ok(<<And255(Shr(v, 8)), And255(v)>>)

SHORT_NoDouble(v) ==
    LET v1 == IF v >= LIMIT16 THEN -(LIMIT16 - v) ELSE v
    IN  Ok(<<And255(Shr(v1, 8)), And255(v1)>>)

SHORT(v) ==
    LET v1 == IF v >= LIMIT16 THEN -(2 * LIMIT16 - v) ELSE v
    IN  Ok(<<And255(Shr(v1, 8)), And255(v1)>>)

UINT24(v) == Ok(<<And255(Shr(v, 16)), And255(Shr(v, 8)), And255(v)>>)

ULONG_Shift16(w) ==
    LET x == ToInt32(w)
    IN  Ok(<<And255(Shr(x, 16)), And255(Shr(x, 16)), And255(Shr(x, 8)), And255(x)>>)

ULONG(w) ==
    LET x == ToInt32(w)
    IN  Ok(<<And255(Shr(x, 24)), And255(Shr(x, 16)), And255(Shr(x, 8)), And255(x)>>)

\* v >= LIMIT32 and -(2 * LIMIT32 - v) on limbs.
GeqLimit32(w) == w.hi >= LIMIT32.hi
MinusTwoLimit32(w) == W(w.hi - 2 * LIMIT32.hi, w.lo)

LONG(w) ==
    LET w1 == IF GeqLimit32(w) THEN MinusTwoLimit32(w) ELSE w
        x == ToInt32(w1)
    IN  Ok(<<And255(Shr(x, 24)), And255(Shr(x, 16)), And255(Shr(x, 8)), And255(x)>>)

(***************************************************************************)
(* CFF data types.                                                         *)
(***************************************************************************)
NUMBER16(v) == Ok(<<28, And255(Shr(v, 8)), And255(v)>>)

NUMBER32(v) ==
    Ok(<<29, And255(Shr(v, 24)), And255(Shr(v, 16)), And255(Shr(v, 8)), And255(v)>>)

NUMBER_Off(v) ==
    IF v >= -107 /\ v <= 107 THEN Ok(<<v + 139>>)
    ELSE IF v >= 108 /\ v < 1131 THEN
        LET v2 == v - 108
            b0 == And255(Shr(v2, 8))
            b1 == v2 - Shl8(b0)
        IN  Ok(<<b0 + 247, b1>>)
    ELSE IF v >= -1131 /\ v <= -108 THEN
        LET v2 == (-v) - 108
            b0 == And255(Shr(v2, 8))
            b1 == v2 - Shl8(b0)
        IN  Ok(<<b0 + 251, b1>>)
    ELSE IF v >= -32768 /\ v < 32767 THEN NUMBER16(v)
    ELSE NUMBER32(v)

NUMBER(v) ==
    IF v >= -107 /\ v <= 107 THEN Ok(<<v + 139>>)
    ELSE IF v >= 108 /\ v <= 1131 THEN
        LET v2 == v - 108
            b0 == And255(Shr(v2, 8))
            b1 == v2 - Shl8(b0)
        IN  Ok(<<b0 + 247, b1>>)
    ELSE IF v >= -1131 /\ v <= -108 THEN
        LET v2 == (-v) - 108
            b0 == And255(Shr(v2, 8))
            b1 == v2 - Shl8(b0)
        IN  Ok(<<b0 + 251, b1>>)
    ELSE IF v >= -32768 /\ v <= 32767 THEN NUMBER16(v)
    ELSE NUMBER32(v)

OPERATOR_Off(v) == IF v <= 1200 THEN Ok(<<v>>) ELSE Ok(<<12, v - 1200>>)

OPERATOR(v) == IF v < 1200 THEN Ok(<<v>>) ELSE Ok(<<12, v - 1200>>)


\* floor(Math.log(n) / Math.log(2)) for n >= 1.  The quotient of the two
\* doubles is exact at the powers 2^8 and 2^16, the only places where the
\* division by 8 below changes value in the range modelled.
RECURSIVE FloorLog2(_)
FloorLog2(n) == IF n <= 1 THEN 0 ELSE 1 + FloorLog2(n \div 2)

\* [undefined, encode.BYTE, encode.USHORT, encode.UINT24, encode.ULONG][offSize]
offsetEncoder(offSize, v) ==
    CASE offSize = 1 -> BYTE(v)
      [] offSize = 2 -> USHORT(v)
      [] offSize = 3 -> UINT24(v)
      [] OTHER -> ULONG(ToWide(v))

\* One pass of the body of the for loop of encode.INDEX on item v.  st holds
\* the loop variables offset, offsets and data; a throwing offset encoder
\* ends the call, so every later pass leaves the thrown state as it is.
INDEX_Step(st, offSize, v) ==
    IF ~st.ok THEN st
    ELSE
        LET offset1 == st.offset + Len(v)
            encodedOffset == offsetEncoder(offSize, offset1)
        IN  IF ~encodedOffset.ok
            THEN [st EXCEPT !.ok = FALSE, !.msg = encodedOffset.msg]
            ELSE [st EXCEPT !.offset = offset1,
                            !.offsets = st.offsets \o encodedOffset.v,
                            !.data = st.data \o v]

\* The passes for items lo..hi in order, starting from st.  The range is
\* run as two halves one after the other to keep the evaluation shallow; a
\* throw in the first half is the outcome of the whole range.
RECURSIVE INDEX_Loop(_, _, _, _, _)
INDEX_Loop(l, offSize, lo, hi, st) ==
    IF lo > hi THEN st
    ELSE IF lo = hi THEN INDEX_Step(st, offSize, l[lo])
    ELSE LET mid == (lo + hi) \div 2
             half == INDEX_Loop(l, offSize, lo, mid, st)
         IN  IF half.ok THEN INDEX_Loop(l, offSize, mid + 1, hi, half) ELSE half

INDEX(l) ==
    IF Len(l) = 0 THEN Ok(<<0, 0>>)
    ELSE
        LET count == USHORT(Len(l))
            offSize == 1 + (FloorLog2(Len(l)) \div 8)
            start == [ok |-> TRUE, msg |-> "", offset |-> 1, offsets |-> <<1>>, data |-> <<>>]
            loop == INDEX_Loop(l, offSize, 1, Len(l), start)
        IN  IF ~loop.ok THEN Throw(loop.msg)
            ELSE Ok(count.v \o BYTE(offSize).v \o loop.offsets \o loop.data)

(***************************************************************************)
(* The byte readers over a DataView.  A DataView getter throws a           *)
(* RangeError when the bytes it needs are not all inside the view.         *)
(***************************************************************************)
NoRead == [ok |-> FALSE, v |-> 0, msg |-> "none"]
RangeError == [ok |-> FALSE, v |-> 0, msg |-> "RangeError"]
Val(x) == [ok |-> TRUE, v |-> x, msg |-> ""]

InView(d, o, n) == o >= 0 /\ o + n <= Len(d)

getUint8(d, o) == IF InView(d, o, 1) THEN Val(d[o + 1]) ELSE RangeError

getInt8(d, o) ==
    IF InView(d, o, 1)
    THEN Val(IF d[o + 1] >= 128 THEN d[o + 1] - 256 ELSE d[o + 1])
    ELSE RangeError

getUint16(d, o) ==
    IF InView(d, o, 2) THEN Val(d[o + 1] * 256 + d[o + 2]) ELSE RangeError

getInt16(d, o) ==
    IF InView(d, o, 2)
    THEN LET u == d[o + 1] * 256 + d[o + 2]
         IN  Val(IF u >= 32768 THEN u - 65536 ELSE u)
    ELSE RangeError

getUint32(d, o) ==
    IF InView(d, o, 4)
    THEN Val(W(d[o + 1] * 256 + d[o + 2], d[o + 3] * 256 + d[o + 4]))
    ELSE RangeError

getInt32(d, o) ==
    IF InView(d, o, 4)
    THEN LET h == d[o + 1] * 256 + d[o + 2]
         IN  Val(W(IF h >= 32768 THEN h - 65536 ELSE h, d[o + 3] * 256 + d[o + 4]))
    ELSE RangeError

getByte(dataView, offset) == getUint8(dataView, offset)

getUShort(dataView, offset) == getUint16(dataView, offset)

getShort(dataView, offset) == getInt16(dataView, offset)

getULong(dataView, offset) == getUint32(dataView, offset)

\* The signed 32-bit read of the reader contract.
getLong(dataView, offset) == getInt32(dataView, offset)


(***************************************************************************)
(* What types.js exports, and the calls the tests make on it.              *)
(***************************************************************************)
\* The names defined on the encode object.
EncodeTypes ==
    {"BYTE", "CHAR", "USHORT", "SHORT", "UINT24", "ULONG", "LONG", "FIXED",
     "FWORD", "UFWORD", "TAG", "Card8", "Card16", "OffSize", "SID", "NUMBER",
     "NUMBER16", "NUMBER32", "NAME", "STRING", "UTF16", "INDEX", "OPERATOR",
     "OPERAND", "TABLE"}

\* exports.decode = decode; exports.encode = encode;
types_exports == [decode |-> {}, encode |-> EncodeTypes]

\* encode[T](v) for the numeric types the model calls.
Encode(T, v) ==
    CASE T = "BYTE" -> BYTE(v)
      [] T = "Card8" -> BYTE(v)
      [] T = "OffSize" -> BYTE(v)
      [] T = "USHORT" -> USHORT(v)
      [] T = "Card16" -> USHORT(v)
      [] T = "UFWORD" -> USHORT(v)
      [] T = "SHORT" -> SHORT(v)
      [] T = "FWORD" -> SHORT(v)
      [] T = "UINT24" -> UINT24(v)
      [] T = "NUMBER" -> NUMBER(v)
      [] T = "NUMBER16" -> NUMBER16(v)
      [] T = "NUMBER32" -> NUMBER32(v)
      [] T = "OPERATOR" -> OPERATOR(v)

\* var sizeOf = types.sizeOf; sizeOf.T(v).  A property the exports object
\* does not carry reads as undefined, and a property access on undefined
\* throws a TypeError.
sizeOf_call(T, v) ==
    IF "sizeOf" \in DOMAIN types_exports
    THEN IF T \in types_exports["sizeOf"] THEN Ok(Len(Encode(T, v).v))
         ELSE Throw("TypeError")
    ELSE Throw("TypeError")

(***************************************************************************)
(* Inputs.                                                                 *)
(***************************************************************************)
MaxInt32 == 2147483647
MinInt32 == (-2147483647) - 1

Near(c) == (c - Radius)..(c + Radius)

\* Multiples of 0x0101 and of 0x010101: every value of every byte occurs.
Sweep16 == {k * 257 : k \in 0..255}
Sweep24 == {k * 65793 : k \in -127..127}

NumberInputs ==
    UNION {Near(c) : c \in {-65536, -32768, -1131, -108, -107, 0, 107, 108, 1131,
                            32767, 65536}}
    \cup {MinInt32 + k : k \in 0..Radius} \cup {MaxInt32 - k : k \in 0..Radius}
    \cup Sweep24 \cup {k - 32768 : k \in Sweep16}

UShortValues == 0..65535
ShortValues == -32768..32767

UShortInputs ==
    (UNION {Near(c) : c \in {0, 255, 32768, 65535}} \cup Sweep16)

ShortInputs ==
    UNION {Near(c) : c \in {-32768, -1, 255, 32767, 65535}}
    \cup Sweep16 \cup {k - 32768 : k \in Sweep16}

HiInputs == UNION {Near(c) : c \in {-32768, 0, 255, 32767, 65535}}
LoInputs == {0, 1, 255, 256, 32768, 65534, 65535}
WideInputs == {W(h, l) : h \in HiInputs, l \in LoInputs}

IsULong(w) == w.hi \in 0..65535
IsLong(w) == w.hi \in -32768..32767

OperatorInputs == {v \in UNION {Near(c) : c \in {0, 12, 255, 1199, 1200, 2399}} : v >= 0}

ByteInputs == UNION {Near(c) : c \in {0, 255}}

\* An item of n bytes.
Fill(n, b) == [i \in 1..n |-> b]

SmallItems == {<<>>, <<65>>, <<66, 67>>, <<0, 255, 7>>}

RECURSIVE SeqsUpTo(_, _)
SeqsUpTo(S, n) ==
    IF n = 0 THEN {<<>>}
    ELSE LET shorter == SeqsUpTo(S, n - 1)
         IN  shorter \cup {Append(q, x) : q \in {r \in shorter : Len(r) = n - 1}, x \in S}

IndexInputs ==
    SeqsUpTo(SmallItems, MaxItems)
    \cup {<<Fill(n, 9)>> : n \in Near(254)}
    \cup {<<Fill(n, 9), Fill(m, 8)>> : n \in {100, 200}, m \in {53, 54, 55}}
    \cup {Fill(k, it) : k \in Near(256), it \in {<<>>, <<7>>}}

(***************************************************************************)
(* The encoder calls.  A call is drawn in the initial state and the action *)
(* of its type applies the encoder to it.                                  *)
(***************************************************************************)
\* assert.equal(sizeOf.T(v), ...) of the tests.
SizeOfInputs ==
    ({"BYTE", "Card8", "OffSize"} \X {0, 254, 255})
    \cup ({"USHORT", "Card16", "UFWORD"} \X {0, 51966, 57069})
    \cup ({"SHORT", "FWORD"} \X {-345, -8193, 0})
    \cup ({"UINT24"} \X {0, 11259375})
    \cup ({"NUMBER"} \X (UNION {Near(c) : c \in {-32768, -1131, -108, 0, 107, 1131, 32767}}))
    \cup ({"NUMBER16"} \X {-32768, -1133, -108, 0, 108, 1133, 32767})
    \cup ({"NUMBER32"} \X {-1, 0, 23})
    \cup ({"OPERATOR"} \X {0, 1199, 1200})

EncInputs(T) ==
    CASE T = "BYTE" -> ByteInputs
      [] T = "USHORT" -> UShortInputs
      [] T = "SHORT" -> ShortInputs
      [] T = "ULONG" -> WideInputs
      [] T = "LONG" -> WideInputs
      [] T = "NUMBER" -> NumberInputs
      [] T = "OPERATOR" -> OperatorInputs
      [] T = "INDEX" -> IndexInputs
      [] T = "sizeOf" -> SizeOfInputs

EncCalls == {"BYTE", "USHORT", "SHORT", "ULONG", "LONG", "NUMBER", "OPERATOR", "INDEX", "sizeOf"}

EncReturn(T, out, read) ==
    /\ encPc = "call"
    /\ encType = T
    /\ encPc' = "done"
    /\ encOut' = out
    /\ encRead' = read
    /\ UNCHANGED <<encType, encArg>>
    /\ UNCHANGED notEnc

\* The reader of a type applied to the bytes an encoder returned.
ReadBack(T, out) ==
    IF ~out.ok THEN NoRead
    ELSE CASE T = "BYTE" -> getByte(out.v, 0)
           [] T = "USHORT" -> getUShort(out.v, 0)
           [] T = "SHORT" -> getShort(out.v, 0)
           [] T = "ULONG" -> getULong(out.v, 0)
           [] T = "LONG" -> getLong(out.v, 0)

EncodeBYTE == EncReturn("BYTE", BYTE(encArg), ReadBack("BYTE", BYTE(encArg)))

EncodeUSHORT == EncReturn("USHORT", USHORT(encArg), ReadBack("USHORT", USHORT(encArg)))

EncodeSHORT == EncReturn("SHORT", SHORT(encArg), ReadBack("SHORT", SHORT(encArg)))

EncodeULONG == EncReturn("ULONG", ULONG(encArg), ReadBack("ULONG", ULONG(encArg)))

EncodeLONG == EncReturn("LONG", LONG(encArg), ReadBack("LONG", LONG(encArg)))

EncodeNUMBER == EncReturn("NUMBER", NUMBER(encArg), NoRead)

EncodeOPERATOR == EncReturn("OPERATOR", OPERATOR(encArg), NoRead)

EncodeINDEX == EncReturn("INDEX", INDEX(encArg), NoRead)

SizeOf == EncReturn("sizeOf", sizeOf_call(encArg[1], encArg[2]), NoRead)

EncInit ==
    /\ encPc = "call"
    /\ encType \in EncCalls
    /\ encArg \in EncInputs(encType)
    /\ encOut = Ok(<<>>)
    /\ encRead = NoRead



(***************************************************************************)
(* The data types of the stateful Parser and their readers.                *)
(***************************************************************************)
getFixed(dataView, offset) == Val(-1)

getLongDateTime(dataView, offset) ==
    LET v1 == getUint32(dataView, offset)
        v2 == getUint32(dataView, offset + 1)
    IN  IF ~v1.ok THEN v1
        ELSE IF ~v2.ok THEN v2
        ELSE Val(<<v1.v, v2.v>>)

\* String.fromCharCode(c): the UTF-16 code unit of c.
fromCharCode(c) == c % 65536

\* The tag as the sequence of its four code units.
getTag(dataView, offset) ==
    IF \E i \in offset..(offset + 3) : ~getInt8(dataView, i).ok THEN RangeError
    ELSE Val([k \in 1..4 |-> fromCharCode(getInt8(dataView, offset + k - 1).v)])

DataTypeNames == {"byte", "uShort", "short", "uLong", "fixed", "longDateTime", "tag"}

dataTypes(type, dataView, offset) ==
    CASE type = "byte" -> getByte(dataView, offset)
      [] type = "uShort" -> getUShort(dataView, offset)
      [] type = "short" -> getShort(dataView, offset)
      [] type = "uLong" -> getULong(dataView, offset)
      [] type = "fixed" -> getFixed(dataView, offset)
      [] type = "longDateTime" -> getLongDateTime(dataView, offset)
      [] type = "tag" -> getTag(dataView, offset)

typeOffsets ==
    [byte |-> 1, uShort |-> 2, short |-> 2, uLong |-> 4, fixed |-> 4,
     longDateTime |-> 8, tag |-> 4]

(***************************************************************************)
(* The Parser.  A reader that throws leaves the method before the cursor   *)
(* is advanced.                                                            *)
(***************************************************************************)
\* The common shape of the parse methods: read at offset + relativeOffset,
\* then add the width to relativeOffset.
ParserRead_AdvanceFirst(op, type, v, width) ==
    /\ pRelativeOffset <= MaxCursor
    /\ lastOp' = op
    /\ lastType' = type
    /\ lastStart' = pRelativeOffset
    /\ lastRes' = v
    /\ pRelativeOffset' = pRelativeOffset + width
    /\ consumed' = IF v.ok THEN consumed + width ELSE consumed
    /\ UNCHANGED <<pDataView, pOffset>>
    /\ UNCHANGED notParser

ParserRead(op, type, v, width) ==
    /\ pRelativeOffset <= MaxCursor
    /\ lastOp' = op
    /\ lastType' = type
    /\ lastStart' = pRelativeOffset
    /\ lastRes' = v
    /\ pRelativeOffset' = IF v.ok THEN pRelativeOffset + width ELSE pRelativeOffset
    /\ consumed' = IF v.ok THEN consumed + width ELSE consumed
    /\ UNCHANGED <<pDataView, pOffset>>
    /\ UNCHANGED notParser

Parser_parse ==
    \E type \in DataTypeNames :
        ParserRead("parse", type, dataTypes(type, pDataView, pOffset + pRelativeOffset),
                   typeOffsets[type])

Parser_parseByte ==
    ParserRead("parseByte", "byte", getByte(pDataView, pOffset + pRelativeOffset), 1)

Parser_parseUShort ==
    ParserRead("parseUShort", "uShort", getUShort(pDataView, pOffset + pRelativeOffset), 2)

Parser_parseShort ==
    ParserRead("parseShort", "short", getShort(pDataView, pOffset + pRelativeOffset), 2)

Parser_parseULong ==
    ParserRead("parseULong", "uLong", getULong(pDataView, pOffset + pRelativeOffset), 4)

\* skip(type, amount); given is FALSE when the amount is left out and so
\* arrives as undefined.
Parser_skip ==
    \E type \in DataTypeNames, given \in BOOLEAN, amount \in 0..MaxSkip :
        LET amount1 == IF ~given THEN 1 ELSE amount
        IN  /\ pRelativeOffset <= MaxCursor
            /\ lastOp' = "skip"
            /\ lastType' = type
            /\ lastStart' = pRelativeOffset
            /\ lastRes' = NoRead
            /\ pRelativeOffset' = pRelativeOffset + typeOffsets[type] * amount1
            /\ consumed' = consumed + typeOffsets[type] * amount1
            /\ UNCHANGED <<pDataView, pOffset>>
            /\ UNCHANGED notParser

\* The byte buffers a Parser is put on: three byte patterns, every length.
BufferPatterns ==
    {[i \in 1..MaxBuf |-> 0],
     [i \in 1..MaxBuf |-> (17 * i) % 256],
     [i \in 1..MaxBuf |-> 255 - ((34 * (i - 1)) % 256)]}

Buffers == {SubSeq(b, 1, n) : b \in BufferPatterns, n \in 0..MaxBuf}

\* new Parser(dataView, offset)
ParserInit ==
    /\ pDataView \in Buffers
    /\ pOffset \in 0..MaxBase
    /\ pRelativeOffset = 0
    /\ lastOp = "none"
    /\ lastType = "none"
    /\ lastStart = 0
    /\ lastRes = NoRead
    /\ consumed = 0


(***************************************************************************)
(* Font files.  A file is built from its version field and its table       *)
(* directory; the bodies of the tables are not laid out, a table is either *)
(* one its codec decodes or one its codec rejects (bad).                   *)
(***************************************************************************)
TagCodes ==
    [cmap |-> <<99, 109, 97, 112>>, head |-> <<104, 101, 97, 100>>,
     hhea |-> <<104, 104, 101, 97>>, hmtx |-> <<104, 109, 116, 120>>,
     maxp |-> <<109, 97, 120, 112>>, name |-> <<110, 97, 109, 101>>,
     os2 |-> <<79, 83, 47, 50>>, post |-> <<112, 111, 115, 116>>,
     glyf |-> <<103, 108, 121, 102>>, loca |-> <<108, 111, 99, 97>>,
     cff |-> <<67, 70, 70, 32>>, kern |-> <<107, 101, 114, 110>>,
     gpos |-> <<71, 80, 79, 83>>, OTTO |-> <<79, 84, 84, 79>>,
     true |-> <<116, 114, 117, 101>>]

\* The name under which the switch statements know a tag, "other" if none.
TagName(codes) ==
    IF \E n \in DOMAIN TagCodes : TagCodes[n] = codes
    THEN CHOOSE n \in DOMAIN TagCodes : TagCodes[n] = codes
    ELSE "other"

Flat4(a, b, c, d) == a \o b \o c \o d

RECURSIVE DirectoryBytes(_, _)
DirectoryBytes(records, i) ==
    IF i > Len(records) THEN <<>>
    ELSE Flat4(TagCodes[records[i].tag], <<0, 0, 0, 0>>,
               <<0, 0, records[i].off \div 256, records[i].off % 256>>, <<0, 0, 0, 0>>)
         \o DirectoryBytes(records, i + 1)

\* The bytes of a font file: version, numTables, three search fields, then
\* one 16-byte record per table; cut >= 0 truncates the file to cut bytes.
FontBytes(in) ==
    LET whole == Flat4(in.version, <<0, Len(in.records)>>, <<0, 0, 0, 0, 0, 0>>,
                       DirectoryBytes(in.records, 1))
    IN  IF in.cut >= 0 /\ in.cut < Len(whole) THEN SubSeq(whole, 1, in.cut) ELSE whole

\* An offset variable that was never assigned.
undefined == W(-1, -1)

\* The truth value of an offset in a condition.
Truthy(x) == x # undefined /\ x # W(0, 0)

\* new Font(): supported, and nothing decoded yet.  recordsRead counts the
\* table records read from the directory.
NewFont ==
    [returned |-> TRUE, msg |-> "", supported |-> TRUE, outlinesFormat |-> "unset",
     glyphs |-> "none", kerningPairs |-> "unset", gpos |-> FALSE,
     tables |-> {}, recordsRead |-> 0]

\* The call left by a throw.
Thrown(font, m) == [font EXCEPT !.returned = FALSE, !.msg = m]

\* parse.getFixed(data, offset): the signed 16.16 number as its whole part
\* and its fraction in 65536ths.
parse_getFixed(dataView, offset) ==
    IF InView(dataView, offset, 4)
    THEN Val([whole |-> getInt16(dataView, offset).v, frac |-> getUint16(dataView, offset + 2).v])
    ELSE RangeError

\* A table codec applied to a table: it decodes it or throws.
TableParse(font, table, bad, decoded) ==
    IF table \in bad THEN Thrown(font, "table") ELSE decoded

NoOffsets ==
    [hmtx |-> undefined, glyf |-> undefined, loca |-> undefined, cff |-> undefined,
     kern |-> undefined, gpos |-> undefined]

\* One pass of the loop over the table records of parseBuffer.
parseBuffer_Record(st, data, p, bad) ==
    LET tag == getTag(data, p)
        off == getULong(data, p + 8)
        read == [st.font EXCEPT !.recordsRead = @ + 1]
    IN  IF ~st.font.returned THEN st
        ELSE IF ~tag.ok \/ ~off.ok THEN [st EXCEPT !.font = Thrown(st.font, "RangeError")]
        ELSE LET name == TagName(tag.v)
             IN  IF name \in {"cmap", "head", "hhea", "maxp", "name", "os2", "post"}
                 THEN [st EXCEPT !.font =
                          TableParse(read, name, bad, [read EXCEPT !.tables = @ \cup {name}])]
                 ELSE IF name \in {"hmtx", "glyf", "loca", "cff", "kern", "gpos"}
                 THEN [st EXCEPT !.font = read, !.offs[name] = off.v]
                 ELSE [st EXCEPT !.font = read]

RECURSIVE parseBuffer_Records(_, _, _, _, _)
parseBuffer_Records(st, data, i, numTables, bad) ==
    IF i >= numTables THEN st
    ELSE parseBuffer_Records(parseBuffer_Record(st, data, 12 + 16 * i, bad),
                             data, i + 1, numTables, bad)

\* parseBuffer that sets kerningPairs only when there is a kern table.
parseBuffer_Outlines_NoDefault(st, bad) ==
    LET font == st.font
        o == st.offs
        outlined ==
            IF Truthy(o.glyf) /\ Truthy(o.loca)
            THEN TableParse(font, "glyf", bad, [font EXCEPT !.glyphs = "truetype"])
            ELSE IF Truthy(o.cff)
            THEN TableParse(font, "cff", bad, [font EXCEPT !.glyphs = "cff"])
            ELSE [font EXCEPT !.supported = FALSE]
        kerned ==
            IF ~outlined.returned \/ ~outlined.supported THEN outlined
            ELSE IF Truthy(o.kern)
            THEN TableParse(outlined, "kern", bad, [outlined EXCEPT !.kerningPairs = "kern"])
            ELSE outlined
    IN  IF ~kerned.returned \/ ~kerned.supported THEN kerned
        ELSE IF Truthy(o.gpos)
        THEN TableParse(kerned, "gpos", bad, [kerned EXCEPT !.gpos = TRUE])
        ELSE kerned

\* The outlines and the kerning of parseBuffer, after the directory.
parseBuffer_Outlines(st, bad) ==
    LET font == st.font
        o == st.offs
        outlined ==
            IF Truthy(o.glyf) /\ Truthy(o.loca)
            THEN TableParse(font, "glyf", bad, [font EXCEPT !.glyphs = "truetype"])
            ELSE IF Truthy(o.cff)
            THEN TableParse(font, "cff", bad, [font EXCEPT !.glyphs = "cff"])
            ELSE [font EXCEPT !.supported = FALSE]
        kerned ==
            IF ~outlined.returned \/ ~outlined.supported THEN outlined
            ELSE IF Truthy(o.kern)
            THEN TableParse(outlined, "kern", bad, [outlined EXCEPT !.kerningPairs = "kern"])
            ELSE [outlined EXCEPT !.kerningPairs = "empty"]
    IN  IF ~kerned.returned \/ ~kerned.supported THEN kerned
        ELSE IF Truthy(o.gpos)
        THEN TableParse(kerned, "gpos", bad, [kerned EXCEPT !.gpos = TRUE])
        ELSE kerned

parseBuffer_AnyVersion(data, bad) ==
    LET font == [NewFont EXCEPT !.outlinesFormat = "truetype"]
        numTables == getUShort(data, 4)
    IN  IF ~numTables.ok THEN Thrown(font, "RangeError")
        ELSE LET st == parseBuffer_Records([font |-> font, offs |-> NoOffsets], data, 0,
                                           numTables.v, bad)
             IN  IF ~st.font.returned THEN st.font ELSE parseBuffer_Outlines(st, bad)

parseBuffer(data, bad) ==
    LET version == parse_getFixed(data, 0)
        tag == getTag(data, 0)
        font ==
            IF ~version.ok THEN Thrown(NewFont, "RangeError")
            ELSE IF version.v.whole = 1 /\ version.v.frac = 0
            THEN [NewFont EXCEPT !.outlinesFormat = "truetype"]
            ELSE IF tag.v = TagCodes.OTTO
            THEN [NewFont EXCEPT !.outlinesFormat = "cff"]
            ELSE Thrown(NewFont, "Unsupported OpenType version")
        numTables == getUShort(data, 4)
    IN  IF ~font.returned THEN font
        ELSE IF ~numTables.ok THEN Thrown(font, "RangeError")
        ELSE LET st == parseBuffer_Records([font |-> font, offs |-> NoOffsets], data, 0,
                                           numTables.v, bad)
             IN  IF ~st.font.returned THEN st.font ELSE parseBuffer_Outlines(st, bad)

(***************************************************************************)
(* openType.parseFont, the entry point of the single-file build.           *)
(***************************************************************************)
\* A small 32-bit offset as a plain integer.
ToInt(w) == w.hi * 65536 + w.lo

\* The first reader that threw among the reads of a table header, if any.
AllRead(reads) == \A i \in DOMAIN reads : reads[i].ok

\* One pass of the loop over the table records of parseFont.
parseFont_Record(st, data, p, bad) ==
    LET tag == getTag(data, p)
        off == getULong(data, p + 8)
        length == getULong(data, p + 12)
        read == [st.font EXCEPT !.recordsRead = @ + 1]
    IN  IF ~st.font.returned THEN st
        ELSE IF ~tag.ok \/ ~off.ok \/ ~length.ok
        THEN [st EXCEPT !.font = Thrown(st.font, "RangeError")]
        ELSE LET name == TagName(tag.v)
                 o == ToInt(off.v)
                 decoded == [read EXCEPT !.tables = @ \cup {name}]
             IN  CASE name = "cmap" ->
                        [st EXCEPT !.font = TableParse(read, name, bad, decoded)]
                   [] name = "head" ->
                        LET magicNumber == getULong(data, o + 12)
                        IN  IF ~AllRead(<<magicNumber, getUShort(data, o + 18),
                                          getUShort(data, o + 50)>>)
                            THEN [st EXCEPT !.font = Thrown(read, "RangeError")]
                            ELSE IF magicNumber.v # W(24335, 15605)
                            THEN [st EXCEPT !.font =
                                     Thrown(read, "Font header has wrong magic number.")]
                            ELSE [st EXCEPT !.font = decoded]
                   [] name = "hhea" ->
                        IF ~AllRead(<<getShort(data, o + 4), getShort(data, o + 6),
                                      getUShort(data, o + 34)>>)
                        THEN [st EXCEPT !.font = Thrown(read, "RangeError")]
                        ELSE [st EXCEPT !.font = decoded]
                   [] name = "maxp" ->
                        IF ~getUShort(data, o + 4).ok
                        THEN [st EXCEPT !.font = Thrown(read, "RangeError")]
                        ELSE [st EXCEPT !.font = decoded]
                   [] name \in {"hmtx", "glyf", "loca", "kern"} ->
                        [st EXCEPT !.font = read, !.offs[name] = off.v]
                   [] OTHER -> [st EXCEPT !.font = read]

RECURSIVE parseFont_Records(_, _, _, _, _)
parseFont_Records(st, data, i, numTables, bad) ==
    IF i >= numTables THEN st
    ELSE parseFont_Records(parseFont_Record(st, data, 12 + 16 * i, bad),
                           data, i + 1, numTables, bad)

parseFont(data, bad) ==
    LET font == NewFont
        numTables == getUShort(data, 4)
    IN  IF ~numTables.ok THEN Thrown(font, "RangeError")
        ELSE LET st == parseFont_Records([font |-> font, offs |-> NoOffsets], data, 0,
                                         numTables.v, bad)
                 f == st.font
                 o == st.offs
             IN  IF ~f.returned THEN f
                 ELSE IF Truthy(o.glyf) /\ Truthy(o.loca)
                 THEN LET outlined ==
                              TableParse(f, "glyf", bad, [f EXCEPT !.glyphs = "truetype"])
                      IN  IF ~outlined.returned THEN outlined
                          ELSE IF Truthy(o.kern)
                          THEN TableParse(outlined, "kern", bad,
                                          [outlined EXCEPT !.kerningPairs = "kern"])
                          ELSE [outlined EXCEPT !.kerningPairs = "empty"]
                 ELSE [f EXCEPT !.supported = FALSE]

(***************************************************************************)
(* The font files handed to the entry points.                              *)
(***************************************************************************)
Versions ==
    {<<0, 1, 0, 0>>, TagCodes.OTTO, TagCodes.true, <<0, 0, 0, 0>>, <<0, 0, 255, 255>>,
     <<0, 1, 0, 1>>}

RecordTypes ==
    {[tag |-> t, off |-> o] : t \in {"glyf", "loca", "cff"}, o \in {0, 100}}
    \cup {[tag |-> t, off |-> 200] : t \in {"kern", "name", "gpos"}}

FontFile(v, r, b, c) == [version |-> v, records |-> r, bad |-> b, cut |-> c]

FontFiles ==
    {FontFile(v, r, {}, -1) : v \in Versions, r \in SeqsUpTo(RecordTypes, MaxTables)}
    \cup {FontFile(v, r, {b}, -1) :
              v \in {<<0, 1, 0, 0>>, TagCodes.OTTO}, r \in SeqsUpTo(RecordTypes, 2),
              b \in {"glyf", "cff", "kern", "name"}}
    \cup {FontFile(v, r, {}, c) :
              v \in Versions, r \in SeqsUpTo(RecordTypes, 1), c \in {0, 3, 5, 20}}

FontReturn(entry, res) ==
    /\ fontPc = "call"
    /\ fontEntry = entry
    /\ fontPc' = "done"
    /\ fontRes' = res
    /\ UNCHANGED <<fontEntry, fontIn>>
    /\ UNCHANGED notFont

ParseBuffer == FontReturn("parseBuffer", parseBuffer(FontBytes(fontIn), fontIn.bad))

ParseFont == FontReturn("parseFont", parseFont(FontBytes(fontIn), fontIn.bad))

FontInit ==
    /\ fontPc = "call"
    /\ fontEntry \in {"parseBuffer", "parseFont"}
    /\ fontIn \in FontFiles
    /\ fontRes = NewFont

(***************************************************************************)
(* load(url, callback): the asynchronous loaders and the callback.         *)
(***************************************************************************)
\* The files a load can find: the font files with at most two table records.
LoadFiles == {f \in FontFiles : Len(f.records) <= 2 /\ f.cut = -1}

\* What the external load answers: a buffer, an error of fs.readFile, a
\* response with a status other than 200, or a request that fails on the
\* network (XMLHttpRequest fires 'error', never 'load').
LoadOutcomes ==
    {[kind |-> "buffer", file |-> f] : f \in LoadFiles}
    \cup {[kind |-> k, file |-> FontFile(<<>>, <<>>, {}, -1)] :
              k \in {"readError", "status404", "networkError"}}

\* callback(err, font): one more invocation on record.
callback(err, font) == ldCalls' = Append(ldCalls, [err |-> err, font |-> font])

\* The function load hands to the loader.
load_Loaded(err, arrayBuffer) ==
    IF err # "null"
    THEN callback(err, "undefined") /\ ldPc' = "done"
    ELSE LET font == parseBuffer(FontBytes(arrayBuffer), arrayBuffer.bad)
         IN  IF ~font.returned
             THEN ldPc' = "thrown" /\ UNCHANGED ldCalls
             ELSE IF ~font.supported
             THEN /\ callback("Font is not supported (is this a Postscript font?)",
                              "undefined")
                  /\ ldPc' = "done"
             ELSE callback("null", font) /\ ldPc' = "done"

\* load picks the loader and starts it; the loader returns at once and
\* the answer of the file system or of the network is still to come.
Load ==
    /\ ldPc = "idle"
    /\ \E env \in {"node", "browser"}, outcome \in LoadOutcomes :
           /\ outcome.kind \in
                  (IF env = "node" THEN {"buffer", "readError"}
                   ELSE {"buffer", "status404", "networkError"})
           /\ ldEnv' = env
           /\ ldOutcome' = outcome
    /\ ldPc' = "pending"
    /\ UNCHANGED ldCalls
    /\ UNCHANGED notLoad

\* The callback loadFromFile gives to fs.readFile.
LoadFromFile_Read ==
    /\ ldPc = "pending"
    /\ ldEnv = "node"
    /\ IF ldOutcome.kind = "readError"
       THEN load_Loaded("err.message", ldOutcome.file)
       ELSE load_Loaded("null", ldOutcome.file)
    /\ UNCHANGED <<ldEnv, ldOutcome>>
    /\ UNCHANGED notLoad

\* request.onload of loadFromUrl.
LoadFromUrl_Onload ==
    /\ ldPc = "pending"
    /\ ldEnv = "browser"
    /\ ldOutcome.kind \in {"buffer", "status404"}
    /\ IF ldOutcome.kind = "status404"
       THEN load_Loaded("Font could not be loaded: Not Found", ldOutcome.file)
       ELSE load_Loaded("null", ldOutcome.file)
    /\ UNCHANGED <<ldEnv, ldOutcome>>
    /\ UNCHANGED notLoad

\* The request fails on the network: loadFromUrl sets no onerror handler.
LoadFromUrl_Error ==
    /\ ldPc = "pending"
    /\ ldEnv = "browser"
    /\ ldOutcome.kind = "networkError"
    /\ ldPc' = "failed"
    /\ UNCHANGED <<ldEnv, ldOutcome, ldCalls>>
    /\ UNCHANGED notLoad

LoadIdle ==
    /\ ldPc = "idle"
    /\ ldEnv = "none"
    /\ ldOutcome = [kind |-> "none", file |-> FontFile(<<>>, <<>>, {}, -1)]
    /\ ldCalls = <<>>

LoadInit == LoadIdle

(***************************************************************************)
(* The GlyphSet: deferred glyph loaders and their memoisation.             *)
(***************************************************************************)
GlyphIndices == 0..(MaxGlyphs - 1)

\* An entry of this.glyphs: nothing, a loader made by ttfGlyphLoader or by
\* cffGlyphLoader, or the Glyph a loader returned.  A Glyph is identified by
\* the run of the loader that made it; its path is 0 while glyph.path is
\* still the deferred function and the number of the decoding otherwise.
NoGlyph == [kind |-> "undefined", format |-> "none", id |-> 0, path |-> 0]
Loader(format) == [kind |-> "loader", format |-> format, id |-> 0, path |-> 0]
ttfGlyphLoader == Loader("ttf")
cffGlyphLoader == Loader("cff")

\* GlyphSet.prototype.get without the replacement of the loader.
GlyphSet_get_NoStore(glyphs, runs, index) ==
    IF glyphs[index].kind = "loader"
    THEN [glyphs |-> glyphs,
          runs |-> [runs EXCEPT ![index] = @ + 1],
          result |-> [glyphs[index] EXCEPT !.kind = "glyph", !.id = runs[index] + 1]]
    ELSE [glyphs |-> glyphs, runs |-> runs, result |-> glyphs[index]]

\* GlyphSet.prototype.get: the entries and run counts after the call, and
\* the value returned.
GlyphSet_get(glyphs, runs, index) ==
    IF glyphs[index].kind = "loader"
    THEN LET made == [glyphs[index] EXCEPT !.kind = "glyph", !.id = runs[index] + 1]
         IN  [glyphs |-> [glyphs EXCEPT ![index] = made],
              runs |-> [runs EXCEPT ![index] = @ + 1],
              result |-> made]
    ELSE [glyphs |-> glyphs, runs |-> runs, result |-> glyphs[index]]

\* A path request on a Glyph: glyph.path is called while it is the deferred
\* function, and the path it built takes its place.
Glyph_getPath(glyph, decodes) ==
    IF glyph.path = 0
    THEN [glyph |-> [glyph EXCEPT !.path = decodes + 1], decodes |-> decodes + 1]
    ELSE [glyph |-> glyph, decodes |-> decodes]

Get ==
    \E index \in GlyphIndices :
        /\ gsRuns[index] < MaxRuns
        /\ LET r == GlyphSet_get(gsGlyphs, gsRuns, index)
           IN  /\ gsGlyphs' = r.glyphs
               /\ gsRuns' = r.runs
               /\ gsGot' = [gsGot EXCEPT ![index] = @ \cup {r.result.id}]
               /\ gsLast' = [op |-> "get", index |-> index, result |-> r.result]
        /\ UNCHANGED <<gsDecodes, gsPaths>>
        /\ UNCHANGED notGlyphSet

GetPath ==
    \E index \in GlyphIndices :
        /\ gsGlyphs[index].kind = "glyph"
        /\ gsDecodes[index] < MaxRuns
        /\ LET r == Glyph_getPath(gsGlyphs[index], gsDecodes[index])
           IN  /\ gsGlyphs' = [gsGlyphs EXCEPT ![index] = r.glyph]
               /\ gsDecodes' = [gsDecodes EXCEPT ![index] = r.decodes]
               /\ gsPaths' = [gsPaths EXCEPT ![index] = @ \cup {r.glyph.path}]
               /\ gsLast' = [op |-> "path", index |-> index, result |-> r.glyph]
        /\ UNCHANGED <<gsRuns, gsGot>>
        /\ UNCHANGED notGlyphSet

GlyphSetInit ==
    /\ gsGlyphs \in [GlyphIndices -> {NoGlyph, ttfGlyphLoader, cffGlyphLoader}]
    /\ gsRuns = [i \in GlyphIndices |-> 0]
    /\ gsDecodes = [i \in GlyphIndices |-> 0]
    /\ gsGot = [i \in GlyphIndices |-> {}]
    /\ gsPaths = [i \in GlyphIndices |-> {}]
    /\ gsLast = [op |-> "none", index |-> 0, result |-> NoGlyph]

GlyphSetIdle ==
    /\ gsGlyphs = <<>>
    /\ gsRuns = <<>>
    /\ gsDecodes = <<>>
    /\ gsGot = <<>>
    /\ gsPaths = <<>>
    /\ gsLast = [op |-> "none", index |-> 0, result |-> NoGlyph]

(***************************************************************************)
(* The character map: segments, charToGlyphIndex and charToGlyph.          *)
(***************************************************************************)
\* x & 0xFFFF.
And65535(x) == x % 65536

\* A thrown error of a table function.
Raise(m) == [ok |-> FALSE, v |-> 0, msg |-> m]

\* One element of font.cmap.  ids is the array of the segment when hasIds,
\* which an empty array also is.
Range(start, end, idDelta) ==
    [start |-> start, end |-> end, idDelta |-> idDelta, hasIds |-> FALSE, ids |-> <<>>]

\* The binary search of charToGlyphIndex over the 0-based indices l..r.
RECURSIVE charToGlyphIndex_Search(_, _, _, _)
charToGlyphIndex_Search(ranges, code, l, r) ==
    IF l < r
    THEN LET c == Shr(l + r + 1, 1)
         IN  IF code < ranges[c + 1].start
             THEN charToGlyphIndex_Search(ranges, code, l, c - 1)
             ELSE charToGlyphIndex_Search(ranges, code, c, r)
    ELSE l

\* this.encoding.charToGlyphIndex of font.js: the segment lookup, which
\* answers 0 when there is no segment to look at.
encoding_charToGlyphIndex(ranges, code) ==
    LET l == charToGlyphIndex_Search(ranges, code, 0, Len(ranges) - 1)
    IN  IF l + 1 \notin DOMAIN ranges THEN Val(0)
        ELSE LET range == ranges[l + 1]
             IN  IF range.start <= code /\ code <= range.end
                 THEN IF range.hasIds
                      THEN IF code - range.start + 1 \in DOMAIN range.ids
                           THEN Val(And65535(range.idDelta
                                             + range.ids[code - range.start + 1]))
                           ELSE Val(0)
                      ELSE Val(And65535(range.idDelta + code))
                 ELSE Val(0)

\* openType.Font.prototype.charToGlyphIndex, on the code unit of the
\* character.  ranges[l] of an empty list is undefined and its .start a
\* TypeError; an index past the end of ids makes the sum NaN, and NaN &
\* 0xFFFF is 0.
charToGlyphIndex(ranges, code) ==
    LET l == charToGlyphIndex_Search(ranges, code, 0, Len(ranges) - 1)
    IN  IF l + 1 \notin DOMAIN ranges THEN Raise("TypeError")
        ELSE LET range == ranges[l + 1]
             IN  IF range.start <= code /\ code <= range.end
                 THEN IF range.hasIds
                      THEN IF code - range.start + 1 \in DOMAIN range.ids
                           THEN Val(And65535(range.idDelta
                                             + range.ids[code - range.start + 1]))
                           ELSE Val(0)
                      ELSE Val(And65535(range.idDelta + code))
                 ELSE Val(0)

\* The glyph list of a Font is modelled by its length: the glyph at index i
\* is i, and -1 is undefined.
GlyphAt(numGlyphs, i) == IF 0 <= i /\ i < numGlyphs THEN i ELSE -1

\* openType.Font.prototype.charToGlyph of the single-file build.
charToGlyph(ranges, numGlyphs, code) ==
    LET glyphIndex == charToGlyphIndex(ranges, code)
    IN  IF ~glyphIndex.ok THEN glyphIndex
        ELSE LET glyph == GlyphAt(numGlyphs, glyphIndex.v)
             IN  IF glyph = -1 THEN Raise("Could not find glyph for character")
                 ELSE Val(glyph)

\* Font.prototype.charToGlyph of font.js.
Font_charToGlyph(ranges, numGlyphs, code) ==
    LET glyphIndex == encoding_charToGlyphIndex(ranges, code)
        glyph == GlyphAt(numGlyphs, glyphIndex.v)
    IN  IF glyph = -1 THEN Val(GlyphAt(numGlyphs, 0)) ELSE Val(glyph)

\* The segment lists of the calls: the sub-lists of three ascending,
\* non-overlapping segments, under three deltas.
CmapDeltas == {5, -12, 32767}

SegmentLists ==
    {SelectSeq(<<[r |-> Range(10, 12, d), k |-> 1], [r |-> Range(20, 20, d), k |-> 2],
                 [r |-> Range(65535, 65535, 1), k |-> 3]>>,
               LAMBDA e : e.k \in keep) :
         keep \in SUBSET {1, 2, 3}, d \in CmapDeltas}

RangesOf(list) == [i \in DOMAIN list |-> list[i].r]

CmapCodes == {0, 9, 10, 11, 12, 13, 19, 20, 21, 65534, 65535}

CharToGlyphIndexCalls ==
    {[ranges |-> RangesOf(l), code |-> c] : l \in SegmentLists, c \in CmapCodes}

CharToGlyphCalls ==
    {[ranges |-> RangesOf(l), code |-> c, numGlyphs |-> n] :
         l \in {m \in SegmentLists : Len(m) >= 2}, c \in CmapCodes, n \in 1..MaxGlyphs}

\* A call of a table function returns.
FnReturn(name, out) ==
    /\ fnPc = "call"
    /\ fnName = name
    /\ fnOut' = out
    /\ fnPc' = "done"
    /\ UNCHANGED <<fnName, fnArg>>
    /\ UNCHANGED notFn

CharToGlyphIndex ==
    FnReturn("charToGlyphIndex", charToGlyphIndex(fnArg.ranges, fnArg.code))

CharToGlyph ==
    FnReturn("charToGlyph", charToGlyph(fnArg.ranges, fnArg.numGlyphs, fnArg.code))

FontCharToGlyph ==
    FnReturn("Font.charToGlyph",
             Font_charToGlyph(fnArg.ranges, fnArg.numGlyphs, fnArg.code))

(***************************************************************************)
(* parseCmapTable: the format 4 sub-table of a cmap table.                 *)
(***************************************************************************)
\* The two bytes of a 16-bit value, signed or unsigned, big-endian.
U16(x) == <<And65535(x) \div 256, And65535(x) % 256>>

RECURSIVE Flat(_)
Flat(ss) == IF ss = <<>> THEN <<>> ELSE Head(ss) \o Flat(Tail(ss))

\* A cmap table with one encoding record (platform 3, encoding 1) whose
\* format 4 sub-table follows the record, put at offset start of a buffer.
CmapBytes(segs, glyphIdArray, start) ==
    LET n == Len(segs)
        column(f) == Flat([i \in 1..n |-> U16(segs[i][f])])
    IN  [i \in 1..start |-> 0]
        \o U16(0) \o U16(1)
        \o U16(3) \o U16(1) \o U16(0) \o U16(12)
        \o U16(4) \o U16(16 + 8 * n + 2 * Len(glyphIdArray)) \o U16(0) \o U16(2 * n)
        \o U16(0) \o U16(0) \o U16(0)
        \o column("end") \o U16(0) \o column("start") \o column("idDelta")
        \o column("idRangeOffset")
        \o Flat([i \in 1..Len(glyphIdArray) |-> U16(glyphIdArray[i])])

\* The loop over the encoding records: the offset of the first Windows
\* sub-table, -1 when there is none.
RECURSIVE parseCmapTable_Encoding(_, _, _, _)
parseCmapTable_Encoding(data, start, i, numTables) ==
    IF i >= numTables THEN Val(-1)
    ELSE LET platformId == getUShort(data, start + 4 + (i * 8))
             encodingId == getUShort(data, start + 4 + (i * 8) + 2)
         IN  IF ~platformId.ok \/ ~encodingId.ok THEN RangeError
             ELSE IF platformId.v = 3 /\ (encodingId.v = 1 \/ encodingId.v = 0)
             THEN LET offset == getULong(data, start + 4 + (i * 8) + 4)
                  IN  IF offset.ok THEN Val(ToInt(offset.v)) ELSE RangeError
             ELSE parseCmapTable_Encoding(data, start, i + 1, numTables)

\* The last loop of parseCmapTable, from segment i (1-based) on, with the
\* Parser at relativeOffset: the ranges, the cursor reached, and whether
\* every read stayed inside the buffer.
RECURSIVE parseCmapTable_Ids(_, _, _, _, _, _)
parseCmapTable_Ids(data, start, base, ranges, i, relativeOffset) ==
    IF i > Len(ranges)
    THEN [ok |-> TRUE, ranges |-> ranges, relativeOffset |-> relativeOffset]
    ELSE LET idRangeOffset == getUShort(data, base + relativeOffset)
             after == relativeOffset + 2
             failed == [ok |-> FALSE, ranges |-> ranges, relativeOffset |-> after]
         IN  IF ~idRangeOffset.ok THEN failed
             ELSE IF idRangeOffset.v = 0
             THEN parseCmapTable_Ids(data, start, base, ranges, i + 1, after)
             ELSE LET length == ranges[i].end - ranges[i].start
                      ids == [j \in 1..length |->
                                  getUShort(data, start + after + idRangeOffset.v
                                                  + 2 * (j - 1))]
                      idDelta == getUShort(data, base + after)
                  IN  IF ~AllRead(ids) \/ ~idDelta.ok THEN failed
                      ELSE parseCmapTable_Ids(data, start, base,
                               [ranges EXCEPT ![i] =
                                    [@ EXCEPT !.hasIds = TRUE,
                                              !.ids = [j \in 1..length |-> ids[j].v],
                                              !.idDelta = idDelta.v]],
                               i + 1, after + 2)

\* parseCmapTable(data, start): the ranges, and the number of uint16 slots
\* the last loop consumed.
parseCmapTable(data, start) ==
    LET version == getUShort(data, start)
        numTables == getUShort(data, start + 2)
    IN  IF ~version.ok THEN RangeError
        ELSE IF version.v # 0 THEN Raise("cmap table version should be 0.")
        ELSE IF ~numTables.ok THEN RangeError
        ELSE LET offset == parseCmapTable_Encoding(data, start, 0, numTables.v)
             IN  IF ~offset.ok THEN RangeError
                 ELSE IF offset.v = -1 THEN Raise("Could not find supported cmap encoding.")
                 ELSE
    LET base == start + offset.v
        format == getUShort(data, base)
        header == <<getUShort(data, base + 2), getUShort(data, base + 4),
                    getUShort(data, base + 6)>>
    IN  IF ~format.ok THEN RangeError
        ELSE IF format.v # 4 THEN Raise("Only format 4 cmap tables are supported.")
        ELSE IF ~AllRead(header) THEN RangeError
        ELSE
    LET count == (header[3].v + 1) \div 2
        ends == [i \in 1..count |-> getUShort(data, base + 14 + 2 * (i - 1))]
        starts == [i \in 1..count |-> getUShort(data, base + 16 + 2 * count + 2 * (i - 1))]
        deltas == [i \in 1..count |-> getShort(data, base + 16 + 4 * count + 2 * (i - 1))]
    IN  IF ~AllRead(ends) \/ ~AllRead(starts) \/ ~AllRead(deltas) THEN RangeError
        ELSE LET ranges == [i \in 1..count |-> Range(starts[i].v, ends[i].v, deltas[i].v)]
                 done == parseCmapTable_Ids(data, start, base, ranges, 1, 16 + 6 * count)
             IN  IF ~done.ok THEN RangeError
                 ELSE Val([ranges |-> done.ranges,
                           slots |-> (done.relativeOffset - (16 + 6 * count)) \div 2])

\* The tables handed to parseCmapTable: a segment with an id array of two or
\* three code points and the closing segment.
Segment(start, end, idDelta, idRangeOffset) ==
    [start |-> start, end |-> end, idDelta |-> idDelta, idRangeOffset |-> idRangeOffset]

CmapTables ==
    {[segs |-> <<Segment(65, e, d, 4), Segment(65535, 65535, 1, 0)>>,
      glyphIdArray |-> <<a, b, c>>, start |-> st] :
         e \in {66, 67}, d \in {0, 1, -1}, a \in {0, 3, 7}, b \in {0, 3, 7}, c \in {0, 3, 7},
         st \in {0, 4}}

ParseCmapTableCalls ==
    {[table |-> t, code |-> c] : t \in CmapTables, c \in 64..68}

\* parseCmapTable on the bytes of the table of the call.
ParseCmapTable ==
    /\ fnPc = "call"
    /\ fnName = "parseCmapTable"
    /\ fnOut' = parseCmapTable(CmapBytes(fnArg.table.segs, fnArg.table.glyphIdArray,
                                         fnArg.table.start),
                               fnArg.table.start)
    /\ fnPc' = "parsed"
    /\ UNCHANGED <<fnName, fnArg>>
    /\ UNCHANGED notFn

\* charToGlyphIndex on the ranges parseCmapTable returned.
LookupParsed ==
    /\ fnPc = "parsed"
    /\ fnName = "parseCmapTable"
    /\ fnOut.ok
    /\ fnOut' = [fnOut EXCEPT
                     !.v = [ranges |-> fnOut.v.ranges, slots |-> fnOut.v.slots,
                            index |-> charToGlyphIndex(fnOut.v.ranges, fnArg.code)]]
    /\ fnPc' = "done"
    /\ UNCHANGED <<fnName, fnArg>>
    /\ UNCHANGED notFn

(***************************************************************************)
(* The kern table: parseKernTable and getKerningValue.                     *)
(***************************************************************************)
\* A kern table of version 0 with one format 0 sub-table, at offset start.
KernBytes(pairList, start) ==
    [i \in 1..start |-> 0]
    \o U16(0) \o U16(1)
    \o U16(0) \o U16(14 + 6 * Len(pairList)) \o U16(1) \o U16(Len(pairList))
    \o U16(0) \o U16(0) \o U16(0)
    \o Flat([i \in 1..Len(pairList) |->
                 U16(pairList[i].left) \o U16(pairList[i].right) \o U16(pairList[i].value)])

\* pairs[leftIndex + ',' + rightIndex] = value.
PutPair(pairs, key, value) ==
    [k \in DOMAIN pairs \cup {key} |-> IF k = key THEN value ELSE pairs[k]]

\* The loop over the pairs of parseKernTable, the Parser being at offset at.
RECURSIVE parseKernTable_Pairs(_, _, _, _, _)
parseKernTable_Pairs(data, at, i, nPairs, pairs) ==
    IF i >= nPairs THEN Val(pairs)
    ELSE LET leftIndex == getUShort(data, at)
             rightIndex == getUShort(data, at + 2)
             value == getShort(data, at + 4)
         IN  IF ~AllRead(<<leftIndex, rightIndex, value>>) THEN RangeError
             ELSE parseKernTable_Pairs(data, at + 6, i + 1, nPairs,
                      PutPair(pairs, <<leftIndex.v, rightIndex.v>>, value.v))

parseKernTable(data, start) ==
    LET tableVersion == getUShort(data, start)
        nTables == getUShort(data, start + 2)
        subTableVersion == getUShort(data, start + 4)
        rest == <<getUShort(data, start + 6), getUShort(data, start + 8),
                  getUShort(data, start + 10)>>
    IN  IF ~tableVersion.ok THEN RangeError
        ELSE IF tableVersion.v # 0 THEN Raise("Unsupported kern table version.")
        ELSE IF ~nTables.ok THEN RangeError
        ELSE IF nTables.v # 1 THEN Raise("Unsupported number of kern sub-tables.")
        ELSE IF ~subTableVersion.ok THEN RangeError
        ELSE IF subTableVersion.v # 0 THEN Raise("Unsupported kern sub-table version.")
        ELSE IF ~AllRead(rest) THEN RangeError
        ELSE parseKernTable_Pairs(data, start + 18, 0, rest[3].v, <<>>)

\* An argument of getKerningValue: an integer index, or a glyph object that
\* carries the index.
GlyphArg(index, object) == [index |-> index, object |-> object]

\* leftGlyph.index ? leftGlyph.index : leftGlyph, as the part of the key it
\* becomes: a number has no index property, and an object whose index is 0
\* stays the object, which is no glyph index (-1 here).
KeyPart(glyph) ==
    IF glyph.object /\ glyph.index # 0 THEN glyph.index
    ELSE IF glyph.object THEN -1
    ELSE glyph.index

\* getKerningValue that looks the pair up in either order.
getKerningValue_Unordered(kerningPairs, leftGlyph, rightGlyph) ==
    LET key == <<KeyPart(leftGlyph), KeyPart(rightGlyph)>>
        reversed == <<KeyPart(rightGlyph), KeyPart(leftGlyph)>>
    IN  IF key \in DOMAIN kerningPairs THEN kerningPairs[key]
        ELSE IF reversed \in DOMAIN kerningPairs THEN kerningPairs[reversed]
        ELSE 0

\* openType.Font.prototype.getKerningValue of the single-file build.
getKerningValue(kerningPairs, leftGlyph, rightGlyph) ==
    LET key == <<KeyPart(leftGlyph), KeyPart(rightGlyph)>>
    IN  IF key \in DOMAIN kerningPairs THEN kerningPairs[key] ELSE 0

\* Font.prototype.getKerningValue of font.js, on a font without GPOS kerning.
Font_getKerningValue(kerningPairs, leftGlyph, rightGlyph) ==
    LET key == <<KeyPart(leftGlyph), KeyPart(rightGlyph)>>
    IN  IF key \in DOMAIN kerningPairs /\ kerningPairs[key] # 0
        THEN kerningPairs[key]
        ELSE 0

KernValues == {-50, 32767, -32768}

KernPair(left, right, value) == [left |-> left, right |-> right, value |-> value]

KernEntries ==
    {KernPair(k[1], k[2], v) : k \in {<<1, 2>>, <<2, 1>>, <<0, 3>>}, v \in KernValues}

\* The lists of at most two kerning pairs of distinct glyph pairs.
KernLists ==
    {q \in SeqsUpTo(KernEntries, 2) :
         \A i, j \in DOMAIN q : i # j => <<q[i].left, q[i].right>> # <<q[j].left, q[j].right>>}

KernGlyphs == 0..3

KernCalls ==
    {[pairList |-> q, start |-> st, left |-> GlyphArg(l, lo), right |-> GlyphArg(r, ro)] :
         q \in KernLists, st \in {0, 2}, l \in KernGlyphs, r \in KernGlyphs,
         lo \in BOOLEAN, ro \in BOOLEAN}

\* parseKernTable on the bytes of the table of the call.
ParseKernTable ==
    /\ fnPc = "call"
    /\ fnName \in {"getKerningValue", "Font.getKerningValue"}
    /\ fnOut' = parseKernTable(KernBytes(fnArg.pairList, fnArg.start), fnArg.start)
    /\ fnPc' = "parsed"
    /\ UNCHANGED <<fnName, fnArg>>
    /\ UNCHANGED notFn

\* A call of a kerning lookup on the pairs parseKernTable returned.
KernReturn(name, value) ==
    /\ fnPc = "parsed"
    /\ fnName = name
    /\ fnOut.ok
    /\ fnOut' = Val([kerningPairs |-> fnOut.v, value |-> value])
    /\ fnPc' = "done"
    /\ UNCHANGED <<fnName, fnArg>>
    /\ UNCHANGED notFn

GetKerningValue ==
    KernReturn("getKerningValue", getKerningValue(fnOut.v, fnArg.left, fnArg.right))

FontGetKerningValue ==
    KernReturn("Font.getKerningValue",
               Font_getKerningValue(fnOut.v, fnArg.left, fnArg.right))

KernInit ==
    /\ fnPc = "call"
    /\ fnName \in {"getKerningValue", "Font.getKerningValue"}
    /\ fnArg \in KernCalls
    /\ fnOut = NoRead

(***************************************************************************)
(* The glyf table: parseGlyph, parseGlyfTable and transformPoints.         *)
(***************************************************************************)
\* isBitSet(b, bitIndex).
isBitSet(b, bitIndex) == Shr(b, bitIndex) % 2 = 1

\* A contour point.
Point(x, y, onCurve, lastPointOfContour) ==
    [x |-> x, y |-> y, onCurve |-> onCurve, lastPointOfContour |-> lastPointOfContour]

\* A component of a composite glyph.
Component(glyphIndex, dx, dy) == [glyphIndex |-> glyphIndex, dx |-> dx, dy |-> dy]

\* A glyph object.  hasPoints tells whether the object has a points
\* property at all, isComposite whether it has isComposite and components.
Glyph(index, numberOfContours, box, hasPoints, points, isComposite, components) ==
    [index |-> index, numberOfContours |-> numberOfContours, xMin |-> box[1],
     yMin |-> box[2], xMax |-> box[3], yMax |-> box[4], hasPoints |-> hasPoints,
     points |-> points, isComposite |-> isComposite, components |-> components]

\* The glyph parseGlyfTable pushes for a zero-length span of loca.
EmptySpanGlyph(index) == Glyph(index, 0, <<0, 0, 0, 0>>, FALSE, <<>>, FALSE, <<>>)

\* The outcome of a run of reads: whether all stayed inside the buffer, the
\* values read, and the offset behind the last one.
Reads(ok, v, at) == [ok |-> ok, v |-> v, at |-> at]

\* The flag loop of parseGlyph: one pass reads a flag and, when bit 3 is
\* set, a repeat count, and pushes the flag 1 + repeatCount times.
RECURSIVE parseGlyph_Flags(_, _, _, _)
parseGlyph_Flags(data, at, flags, numberOfCoordinates) ==
    IF Len(flags) >= numberOfCoordinates THEN Reads(TRUE, flags, at)
    ELSE LET flag == getByte(data, at)
         IN  IF ~flag.ok THEN Reads(FALSE, flags, at)
             ELSE IF isBitSet(flag.v, 3)
             THEN LET repeatCount == getByte(data, at + 1)
                  IN  IF ~repeatCount.ok THEN Reads(FALSE, flags, at)
                      ELSE parseGlyph_Flags(data, at + 2,
                               flags \o [j \in 1..(repeatCount.v + 1) |-> flag.v],
                               numberOfCoordinates)
             ELSE parseGlyph_Flags(data, at + 1, Append(flags, flag.v),
                                   numberOfCoordinates)

\* _parseGlyphCoordinate: the coordinate and the offset behind it.
parseGlyphCoordinate(data, at, flag, previousValue, shortVectorBit, sameBit) ==
    IF isBitSet(flag, shortVectorBit)
    THEN LET v == getByte(data, at)
         IN  IF ~v.ok THEN Reads(FALSE, 0, at)
             ELSE Reads(TRUE,
                        previousValue + (IF isBitSet(flag, sameBit) THEN v.v ELSE 0 - v.v),
                        at + 1)
    ELSE IF isBitSet(flag, sameBit) THEN Reads(TRUE, previousValue, at)
    ELSE LET v == getShort(data, at)
         IN  IF ~v.ok THEN Reads(FALSE, 0, at)
             ELSE Reads(TRUE, previousValue + v.v, at + 2)

\* One of the two coordinate loops of parseGlyph, from point i (1-based) on.
RECURSIVE parseGlyph_Coordinates(_, _, _, _, _, _, _, _)
parseGlyph_Coordinates(data, at, flags, i, previous, shortVectorBit, sameBit, values) ==
    IF i > Len(flags) THEN Reads(TRUE, values, at)
    ELSE LET c == parseGlyphCoordinate(data, at, flags[i], previous, shortVectorBit, sameBit)
         IN  IF ~c.ok THEN Reads(FALSE, values, at)
             ELSE parseGlyph_Coordinates(data, c.at, flags, i + 1, c.v, shortVectorBit,
                                         sameBit, Append(values, c.v))

\* The component loop of parseGlyph: it goes on while bit 5 of the flags of
\* the component read last is set.
RECURSIVE parseGlyph_Components(_, _, _)
parseGlyph_Components(data, at, components) ==
    LET flags == getUShort(data, at)
        glyphIndex == getUShort(data, at + 2)
    IN  IF ~flags.ok \/ ~glyphIndex.ok THEN Reads(FALSE, components, at)
        ELSE
    LET words == isBitSet(flags.v, 0)
        arg1 == IF words THEN getShort(data, at + 4) ELSE getByte(data, at + 4)
        arg2 == IF words THEN getShort(data, at + 6) ELSE getByte(data, at + 5)
        afterArgs == IF words THEN at + 8 ELSE at + 6
        shorts == IF isBitSet(flags.v, 3) THEN 1
                  ELSE IF isBitSet(flags.v, 6) THEN 2
                  ELSE IF isBitSet(flags.v, 7) THEN 4
                  ELSE 0
        scales == [k \in 1..shorts |-> getShort(data, afterArgs + 2 * (k - 1))]
        pushed == Append(components, Component(glyphIndex.v, arg1.v, arg2.v))
    IN  IF ~arg1.ok \/ ~arg2.ok \/ ~AllRead(scales) THEN Reads(FALSE, components, at)
        ELSE IF isBitSet(flags.v, 5)
        THEN parseGlyph_Components(data, afterArgs + 2 * shorts, pushed)
        ELSE Reads(TRUE, pushed, afterArgs + 2 * shorts)

\* The simple branch of parseGlyph, behind the ten bytes of the header.
parseGlyph_Simple(data, start, index, numberOfContours, box) ==
    LET ends == [i \in 1..numberOfContours |-> getUShort(data, start + 10 + 2 * (i - 1))]
        instructionLength == getUShort(data, start + 10 + 2 * numberOfContours)
        code == start + 12 + 2 * numberOfContours
    IN  IF ~AllRead(ends) \/ ~instructionLength.ok THEN RangeError
        ELSE IF instructionLength.v > 0 /\ ~InView(data, code, instructionLength.v)
        THEN RangeError
        ELSE
    LET endPointIndices == [i \in 1..numberOfContours |-> ends[i].v]
        numberOfCoordinates == endPointIndices[numberOfContours] + 1
        flags == parseGlyph_Flags(data, code + instructionLength.v, <<>>,
                                  numberOfCoordinates)
    IN  IF ~flags.ok THEN RangeError
        ELSE IF Len(flags.v) # numberOfCoordinates THEN Raise("Bad flags.")
        ELSE
    LET xs == parseGlyph_Coordinates(data, flags.at, flags.v, 1, 0, 1, 4, <<>>)
        ys == parseGlyph_Coordinates(data, xs.at, flags.v, 1, 0, 2, 5, <<>>)
    IN  IF ~xs.ok THEN RangeError
        ELSE IF ~ys.ok THEN RangeError
        ELSE Val(Glyph(index, numberOfContours, box, TRUE,
                       [i \in 1..numberOfCoordinates |->
                            Point(xs.v[i], ys.v[i], isBitSet(flags.v[i], 0),
                                  \E k \in 1..numberOfContours :
                                      endPointIndices[k] = i - 1)],
                       FALSE, <<>>))

\* parseGlyph(data, start, index).
parseGlyph(data, start, index) ==
    LET header == [i \in 1..5 |-> getShort(data, start + 2 * (i - 1))]
    IN  IF ~AllRead(header) THEN RangeError
        ELSE
    LET numberOfContours == header[1].v
        box == <<header[2].v, header[3].v, header[4].v, header[5].v>>
    IN  IF numberOfContours > 0
        THEN parseGlyph_Simple(data, start, index, numberOfContours, box)
        ELSE IF numberOfContours = 0
        THEN Val(Glyph(index, 0, box, TRUE, <<>>, FALSE, <<>>))
        ELSE LET components == parseGlyph_Components(data, start + 10, <<>>)
             IN  IF ~components.ok THEN RangeError
                 ELSE Val(Glyph(index, numberOfContours, box, TRUE, <<>>, TRUE,
                                components.v))

\* transformPoints that forgets the vertical offset.
transformPoints_NoDy(points, dx, dy) ==
    [i \in DOMAIN points |->
         Point(points[i].x + dx, points[i].y, points[i].onCurve,
               points[i].lastPointOfContour)]

\* transformPoints(points, dx, dy): a new array of new points.
transformPoints(points, dx, dy) ==
    [i \in DOMAIN points |->
         Point(points[i].x + dx, points[i].y + dy, points[i].onCurve,
               points[i].lastPointOfContour)]

\* The first loop of parseGlyfTable, from the 0-based glyph index i on.
RECURSIVE parseGlyfTable_Glyphs(_, _, _, _, _)
parseGlyfTable_Glyphs(data, start, loca, i, glyphs) ==
    IF i >= Len(loca) - 1 THEN Val(glyphs)
    ELSE LET offset == loca[i + 1]
             nextOffset == loca[i + 2]
         IN  IF offset # nextOffset
             THEN LET glyph == parseGlyph(data, start + offset, i)
                  IN  IF ~glyph.ok THEN glyph
                      ELSE parseGlyfTable_Glyphs(data, start, loca, i + 1,
                                                 Append(glyphs, glyph.v))
             ELSE parseGlyfTable_Glyphs(data, start, loca, i + 1,
                                        Append(glyphs, EmptySpanGlyph(i)))

\* The loop over the components of glyph i (1-based) in the second loop of
\* parseGlyfTable, from component j on: the points are pushed in place.
RECURSIVE parseGlyfTable_Components(_, _, _)
parseGlyfTable_Components(glyphs, i, j) ==
    IF j > Len(glyphs[i].components) THEN Val(glyphs)
    ELSE LET component == glyphs[i].components[j]
         IN  IF component.glyphIndex + 1 \notin DOMAIN glyphs THEN Raise("TypeError")
             ELSE LET componentGlyph == glyphs[component.glyphIndex + 1]
                  IN  IF componentGlyph.hasPoints
                      THEN parseGlyfTable_Components(
                               [glyphs EXCEPT ![i].points =
                                    @ \o transformPoints(componentGlyph.points,
                                                         component.dx, component.dy)],
                               i, j + 1)
                      ELSE parseGlyfTable_Components(glyphs, i, j + 1)

\* The second loop of parseGlyfTable, from glyph i (1-based) on.
RECURSIVE parseGlyfTable_Resolve(_, _)
parseGlyfTable_Resolve(glyphs, i) ==
    IF i > Len(glyphs) THEN Val(glyphs)
    ELSE IF glyphs[i].isComposite
    THEN LET resolved == parseGlyfTable_Components(glyphs, i, 1)
         IN  IF ~resolved.ok THEN resolved
             ELSE parseGlyfTable_Resolve(resolved.v, i + 1)
    ELSE parseGlyfTable_Resolve(glyphs, i + 1)

\* parseGlyfTable(data, start, loca).
parseGlyfTable(data, start, loca) ==
    LET glyphs == parseGlyfTable_Glyphs(data, start, loca, 0, <<>>)
    IN  IF ~glyphs.ok THEN glyphs ELSE parseGlyfTable_Resolve(glyphs.v, 1)

(***************************************************************************)
(* openType.glyphToPath: from contour points to path commands.             *)
(***************************************************************************)
\* Midpoints halve sums of integers, so the coordinates of the commands are
\* kept doubled: the field x of a command holds twice the x of the code.
Doubled(pt) == [x |-> 2 * pt.x, y |-> 2 * pt.y]
MidPt(prevPt, pt) == [x |-> prevPt.x + pt.x, y |-> prevPt.y + pt.y]

\* The commands Path pushes; (tx + x, ty - y) is applied to every point.
MoveTo(tx, ty, p) ==
    [type |-> "M", x1 |-> 0, y1 |-> 0, x |-> 2 * tx + p.x, y |-> 2 * ty - p.y]
LineTo(tx, ty, p) ==
    [type |-> "L", x1 |-> 0, y1 |-> 0, x |-> 2 * tx + p.x, y |-> 2 * ty - p.y]
QuadraticCurveTo(tx, ty, c, p) ==
    [type |-> "Q", x1 |-> 2 * tx + c.x, y1 |-> 2 * ty - c.y,
     x |-> 2 * tx + p.x, y |-> 2 * ty - p.y]
ClosePath == [type |-> "Z", x1 |-> 0, y1 |-> 0, x |-> 0, y |-> 0]

\* curvePt: null, or a point.
NullPt == [set |-> FALSE, x |-> 0, y |-> 0]
CurvePt(p) == [set |-> TRUE, x |-> p.x, y |-> p.y]

\* getContours, from point i on: the contours closed so far and the points
\* of the current one.
RECURSIVE getContours_Loop(_, _, _, _)
getContours_Loop(points, i, contours, currentContour) ==
    IF i > Len(points)
    THEN IF currentContour = <<>> THEN Val(contours)
         ELSE Raise("There are still points left in the current contour.")
    ELSE IF points[i].lastPointOfContour
    THEN getContours_Loop(points, i + 1, Append(contours, Append(currentContour, points[i])),
                          <<>>)
    ELSE getContours_Loop(points, i + 1, contours, Append(currentContour, points[i]))

getContours(glyph) == getContours_Loop(glyph.points, 1, <<>>, <<>>)

\* The loop over the points of one contour, from point i (1-based) on.
RECURSIVE glyphToPath_Points(_, _, _, _, _, _)
glyphToPath_Points(contour, tx, ty, i, curvePt, commands) ==
    IF i > Len(contour) THEN [curvePt |-> curvePt, commands |-> commands]
    ELSE LET pt == contour[i]
             prevPt == IF i = 1 THEN contour[Len(contour)] ELSE contour[i - 1]
             midPt == MidPt(prevPt, pt)
         IN  IF i = 1
             THEN IF pt.onCurve
                  THEN glyphToPath_Points(contour, tx, ty, i + 1, NullPt,
                           Append(commands, MoveTo(tx, ty, Doubled(pt))))
                  ELSE glyphToPath_Points(contour, tx, ty, i + 1, CurvePt(midPt),
                           Append(commands, MoveTo(tx, ty, midPt)))
             ELSE IF prevPt.onCurve /\ pt.onCurve
             THEN glyphToPath_Points(contour, tx, ty, i + 1, curvePt,
                      Append(commands, LineTo(tx, ty, Doubled(pt))))
             ELSE IF prevPt.onCurve /\ ~pt.onCurve
             THEN glyphToPath_Points(contour, tx, ty, i + 1, CurvePt(Doubled(pt)), commands)
             ELSE IF ~prevPt.onCurve /\ ~pt.onCurve
             THEN glyphToPath_Points(contour, tx, ty, i + 1, CurvePt(Doubled(pt)),
                      Append(commands, QuadraticCurveTo(tx, ty, Doubled(prevPt), midPt)))
             ELSE glyphToPath_Points(contour, tx, ty, i + 1, NullPt,
                      Append(commands, QuadraticCurveTo(tx, ty, curvePt, Doubled(pt))))

\* The function glyphToPath applies to each contour.
glyphToPath_Contour(contour, tx, ty, commands) ==
    LET walked == glyphToPath_Points(contour, tx, ty, 1, NullPt, commands)
        firstPt == Doubled(contour[1])
    IN  IF walked.curvePt.set
        THEN Append(walked.commands, QuadraticCurveTo(tx, ty, walked.curvePt, firstPt))
        ELSE Append(walked.commands, LineTo(tx, ty, firstPt))

RECURSIVE glyphToPath_Contours(_, _, _, _, _)
glyphToPath_Contours(contours, tx, ty, k, commands) ==
    IF k > Len(contours) THEN commands
    ELSE glyphToPath_Contours(contours, tx, ty, k + 1,
                              glyphToPath_Contour(contours[k], tx, ty, commands))

\* openType.glyphToPath(glyph, tx, ty): the commands of the path.
glyphToPath(glyph, tx, ty) ==
    IF ~glyph.hasPoints THEN Val(<<>>)
    ELSE LET contours == getContours(glyph)
         IN  IF ~contours.ok THEN contours
             ELSE Val(Append(glyphToPath_Contours(contours.v, tx, ty, 1, <<>>), ClosePath))

(***************************************************************************)
(* The glyf tables handed to parseGlyfTable.                               *)
(***************************************************************************)
\* The description of a glyph record: a simple glyph with its end points,
\* its points <<x, y, onCurve>> and the way its flags and deltas are
\* written, a composite glyph with its components, a record of zero
\* contours, or no record at all (a zero-length span of loca); a composite
\* whose last component still has the more-components bit set ("runaway")
\* and a simple glyph whose flag run is longer than its points ("badrun").
Record(kind, ends, pts, style, comps, box) ==
    [kind |-> kind, ends |-> ends, pts |-> pts, style |-> style, comps |-> comps,
     box |-> box]

Simple(ends, pts, style) == Record("simple", ends, pts, style, <<>>, <<-7, -5, 20, 20>>)
Composite(comps) == Record("composite", <<>>, <<>>, "none", comps, <<-7, -5, 30, 40>>)
EmptyRecord == Record("empty", <<>>, <<>>, "none", <<>>, <<0, 0, 0, 0>>)
NoRecord == Record("span", <<>>, <<>>, "none", <<>>, <<0, 0, 0, 0>>)

\* A component as it is written: with word or byte arguments, and with no
\* transform, a scale, an x and y scale or a 2x2 matrix behind them.
Written(glyphIndex, dx, dy, words, transform) ==
    [glyphIndex |-> glyphIndex, dx |-> dx, dy |-> dy, words |-> words,
     transform |-> transform]

Abs(x) == IF x < 0 THEN 0 - x ELSE x

\* The delta of coordinate c (1 for x, 2 for y) of point i to the point before.
Delta(pts, i, c) == pts[i][c] - (IF i = 1 THEN 0 ELSE pts[i - 1][c])

\* The flag byte of point i.
FlagOf(pts, i, style) ==
    LET on == IF pts[i][3] THEN 1 ELSE 0
        dx == Delta(pts, i, 1)
        dy == Delta(pts, i, 2)
    IN  IF style = "bytes"
        THEN on + 2 + 4 + (IF dx >= 0 THEN 16 ELSE 0) + (IF dy >= 0 THEN 32 ELSE 0)
        ELSE on + (IF dx = 0 THEN 16 ELSE 0) + (IF dy = 0 THEN 32 ELSE 0)

\* The bytes of coordinate c of point i.
DeltaBytes(pts, i, c, style) ==
    LET d == Delta(pts, i, c)
    IN  IF style = "bytes" THEN <<Abs(d)>>
        ELSE IF d = 0 THEN <<>>
        ELSE U16(d)

\* The flag stream: one byte per point, or one run when the style is
\* "repeat" (all flags are then equal).
FlagBytes(pts, style) ==
    IF style = "repeat"
    THEN <<FlagOf(pts, 1, style) + 8, Len(pts) - 1>>
    ELSE [i \in DOMAIN pts |-> FlagOf(pts, i, style)]

ComponentBytes(c, more) ==
    LET bit == CASE c.transform = "scale" -> 8
                 [] c.transform = "xy" -> 64
                 [] c.transform = "2x2" -> 128
                 [] OTHER -> 0
        count == CASE c.transform = "scale" -> 1
                   [] c.transform = "xy" -> 2
                   [] c.transform = "2x2" -> 4
                   [] OTHER -> 0
    IN  U16((IF c.words THEN 1 ELSE 0) + 2 + bit + (IF more THEN 32 ELSE 0))
        \o U16(c.glyphIndex)
        \o (IF c.words THEN U16(c.dx) \o U16(c.dy) ELSE <<c.dx % 256, c.dy % 256>>)
        \o Flat([k \in 1..count |-> U16(16384)])

BoxBytes(box) == U16(box[1]) \o U16(box[2]) \o U16(box[3]) \o U16(box[4])

\* The bytes of one glyph record.
RecordBytes(r) ==
    CASE r.kind = "simple" ->
             U16(Len(r.ends)) \o BoxBytes(r.box)
             \o Flat([i \in DOMAIN r.ends |-> U16(r.ends[i])])
             \o U16(1) \o <<176>>
             \o FlagBytes(r.pts, r.style)
             \o Flat([i \in DOMAIN r.pts |-> DeltaBytes(r.pts, i, 1, r.style)])
             \o Flat([i \in DOMAIN r.pts |-> DeltaBytes(r.pts, i, 2, r.style)])
      [] r.kind = "composite" ->
             U16(-1) \o BoxBytes(r.box)
             \o Flat([j \in DOMAIN r.comps |->
                          ComponentBytes(r.comps[j], j < Len(r.comps))])
      [] r.kind = "empty" -> U16(0) \o BoxBytes(r.box)
      [] r.kind = "runaway" ->
             U16(-1) \o BoxBytes(r.box)
             \o Flat([j \in DOMAIN r.comps |-> ComponentBytes(r.comps[j], TRUE)])
      [] r.kind = "badrun" ->
             U16(Len(r.ends)) \o BoxBytes(r.box)
             \o Flat([i \in DOMAIN r.ends |-> U16(r.ends[i])])
             \o U16(0) \o <<FlagOf(r.pts, 1, r.style) + 8, 200>>
      [] OTHER -> <<>>

\* The glyf table of a list of records and its loca offsets.
GlyfBytes(records) == Flat([i \in DOMAIN records |-> RecordBytes(records[i])])

LocaOf(records) ==
    [i \in 1..(Len(records) + 1) |-> Len(GlyfBytes(SubSeq(records, 1, i - 1)))]

Triangle == Simple(<<2>>, <<<<0, 0, TRUE>>, <<10, 20, FALSE>>, <<20, 0, TRUE>>>>, "words")

TwoContours ==
    Simple(<<1, 4>>,
           << <<5, 5, TRUE>>, <<5, -5, TRUE>>,
              <<-7, 3, FALSE>>, <<7, 3, FALSE>>, <<0, 9, TRUE>> >>, "bytes")

Run == Simple(<<2>>, <<<<1, 1, TRUE>>, <<2, 3, TRUE>>, <<4, 9, TRUE>>>>, "repeat")

RepeatedEnd == Simple(<<1, 1>>, <<<<0, 0, TRUE>>, <<4, 0, TRUE>>>>, "words")

GlyphRecords ==
    {Triangle, TwoContours, Run, RepeatedEnd, EmptyRecord, NoRecord,
     Composite(<<Written(3, 1, 1, TRUE, "none")>>),
     Composite(<<Written(1, 3, 4, FALSE, "scale"), Written(0, -5, 6, TRUE, "2x2")>>)}
    \cup {Composite(<<Written(g, 10, 20, TRUE, "none")>>) : g \in 0..2}

GlyfTables == SeqsUpTo(GlyphRecords, MaxGlyphs) \ {<<>>}

GlyfCalls ==
    {[records |-> t, start |-> st, index |-> i, tx |-> tr[1], ty |-> tr[2]] :
         t \in GlyfTables, st \in {0}, i \in 0..(MaxGlyphs - 1), tr \in {<<0, 0>>, <<3, -2>>}}

\* parseGlyfTable on the bytes and the loca offsets of the table of the call.
ParseGlyfTable ==
    /\ fnPc = "call"
    /\ fnName = "parseGlyfTable"
    /\ fnOut' = parseGlyfTable(GlyfBytes(fnArg.records), fnArg.start, LocaOf(fnArg.records))
    /\ fnPc' = "parsed"
    /\ UNCHANGED <<fnName, fnArg>>
    /\ UNCHANGED notFn

\* glyphToPath on one of the glyphs parseGlyfTable returned.
GlyphToPath ==
    /\ fnPc = "parsed"
    /\ fnName = "parseGlyfTable"
    /\ fnOut.ok
    /\ fnArg.index + 1 \in DOMAIN fnOut.v
    /\ fnOut' = Val([glyphs |-> fnOut.v,
                     path |-> glyphToPath(fnOut.v[fnArg.index + 1], fnArg.tx, fnArg.ty)])
    /\ fnPc' = "done"
    /\ UNCHANGED <<fnName, fnArg>>
    /\ UNCHANGED notFn

GlyfInit ==
    /\ fnPc = "call"
    /\ fnName = "parseGlyfTable"
    /\ fnArg \in {c \in GlyfCalls : c.index < Len(c.records)}
    /\ fnOut = NoRead

\* Records that do not end where they should.
Runaway(comps) == Record("runaway", <<>>, <<>>, "none", comps, <<-7, -5, 30, 40>>)
BadRun == Record("badrun", <<0>>, <<<<1, 1, TRUE>>>>, "words", <<>>, <<-7, -5, 20, 20>>)

\* The buffers parseGlyfTable is stepped through: the tables of up to
\* MaxPassGlyphs records with up to MaxCut bytes missing at the end.
PassRecords ==
    GlyphRecords \cup {BadRun, Runaway(<<Written(0, 1, 2, FALSE, "none")>>)}

GlyfBuffers ==
    {[data |-> SubSeq(GlyfBytes(t), 1, Len(GlyfBytes(t)) - cut), start |-> 0,
      loca |-> LocaOf(t), records |-> t] :
         t \in SeqsUpTo(PassRecords, MaxPassGlyphs) \ {<<>>}, cut \in 0..MaxCut}

(***************************************************************************)
(* parseGlyfTable, one pass of a loop at a time.                           *)
(***************************************************************************)
\* The locals of parseGlyfTable and of the parseGlyph it is in: the glyphs
\* pushed so far, the loop counters i and j, the glyph being parsed, its
\* endPointIndices and flags, the coordinates read so far, and the position
\* of its Parser.
Frame(glyphs, i, j, glyph, endPointIndices, flags, xs, ys, at) ==
    [glyphs |-> glyphs, i |-> i, j |-> j, glyph |-> glyph,
     endPointIndices |-> endPointIndices, flags |-> flags, xs |-> xs, ys |-> ys,
     at |-> at]

NewFrame == Frame(<<>>, 0, 1, EmptySpanGlyph(0), <<>>, <<>>, <<>>, <<>>, 0)

\* One pass of the flag loop: a flag, and its run when bit 3 is set.
parseGlyph_FlagsPass(data, at, flags) ==
    LET flag == getByte(data, at)
        repeatCount == getByte(data, at + 1)
    IN  IF ~flag.ok THEN Reads(FALSE, flags, at)
        ELSE IF ~isBitSet(flag.v, 3) THEN Reads(TRUE, Append(flags, flag.v), at + 1)
        ELSE IF ~repeatCount.ok THEN Reads(FALSE, flags, at)
        ELSE Reads(TRUE, flags \o [j \in 1..(repeatCount.v + 1) |-> flag.v], at + 2)

\* A pass of the component loop that starts over at the same component
\* when more components follow.
parseGlyph_ComponentsPass_Again(data, at, components) ==
    LET flags == getUShort(data, at)
    IN  IF ~flags.ok THEN [ok |-> FALSE, v |-> components, at |-> at, more |-> FALSE]
        ELSE IF isBitSet(flags.v, 5)
        THEN [ok |-> TRUE, v |-> components, at |-> at, more |-> TRUE]
        ELSE [ok |-> TRUE, v |-> Append(components, Component(0, 0, 0)), at |-> at + 6,
              more |-> FALSE]

\* One pass of the component loop: the component pushed, the position
\* behind it and moreComponents.
parseGlyph_ComponentsPass(data, at, components) ==
    LET flags == getUShort(data, at)
        glyphIndex == getUShort(data, at + 2)
    IN  IF ~flags.ok \/ ~glyphIndex.ok
        THEN [ok |-> FALSE, v |-> components, at |-> at, more |-> FALSE]
        ELSE
    LET words == isBitSet(flags.v, 0)
        arg1 == IF words THEN getShort(data, at + 4) ELSE getByte(data, at + 4)
        arg2 == IF words THEN getShort(data, at + 6) ELSE getByte(data, at + 5)
        afterArgs == IF words THEN at + 8 ELSE at + 6
        shorts == IF isBitSet(flags.v, 3) THEN 1
                  ELSE IF isBitSet(flags.v, 6) THEN 2
                  ELSE IF isBitSet(flags.v, 7) THEN 4
                  ELSE 0
        scales == [k \in 1..shorts |-> getShort(data, afterArgs + 2 * (k - 1))]
    IN  IF ~arg1.ok \/ ~arg2.ok \/ ~AllRead(scales)
        THEN [ok |-> FALSE, v |-> components, at |-> at, more |-> FALSE]
        ELSE [ok |-> TRUE,
              v |-> Append(components, Component(glyphIndex.v, arg1.v, arg2.v)),
              at |-> afterArgs + 2 * shorts, more |-> isBitSet(flags.v, 5)]

\* One pass of a coordinate loop: the coordinate of the next point.
parseGlyph_CoordinatesPass(data, at, flags, values, shortVectorBit, sameBit) ==
    LET previous == IF values = <<>> THEN 0 ELSE values[Len(values)]
        c == parseGlyphCoordinate(data, at, flags[Len(values) + 1], previous,
                                  shortVectorBit, sameBit)
    IN  Reads(c.ok, IF c.ok THEN Append(values, c.v) ELSE values, c.at)

\* The points of a simple glyph, from its flags and coordinates.
parseGlyph_Points(endPointIndices, flags, xs, ys) ==
    [i \in DOMAIN flags |->
         Point(xs[i], ys[i], isBitSet(flags[i], 0),
               \E k \in DOMAIN endPointIndices : endPointIndices[k] = i - 1)]

\* The call goes on at pc with the locals g.
Goto(pc, g) ==
    /\ fnPc' = pc
    /\ fnOut' = Val(g)

\* The call raises: the locals are those of the pass that raised.
Throws(error) ==
    /\ fnPc' = "raised"
    /\ fnOut' = [ok |-> FALSE, v |-> fnOut.v, msg |-> error.msg]

\* parseGlyfTable(data, start, loca) is called on some table.
GlyfStart ==
    /\ fnPc = "start"
    /\ fnName = "parseGlyfTable"
    /\ fnArg' \in GlyfBuffers
    /\ Goto("glyphs", fnOut.v)
    /\ UNCHANGED fnName
    /\ UNCHANGED notFn

\* One pass of the first loop of parseGlyfTable, up to the flag loop or the
\* component loop of parseGlyph when the glyph has one.
GlyphsPass ==
    /\ fnPc = "glyphs"
    /\ fnName = "parseGlyfTable"
    /\ LET f == fnOut.v
           data == fnArg.data
           loca == fnArg.loca
       IN  IF f.i >= Len(loca) - 1
           THEN Goto("resolve", [f EXCEPT !.i = 1, !.j = 1])
           ELSE IF loca[f.i + 1] = loca[f.i + 2]
           THEN Goto("glyphs", [f EXCEPT !.glyphs = Append(@, EmptySpanGlyph(f.i)),
                                         !.i = @ + 1])
           ELSE
       LET start == fnArg.start + loca[f.i + 1]
           header == [k \in 1..5 |-> getShort(data, start + 2 * (k - 1))]
       IN  IF ~AllRead(header) THEN Throws(RangeError)
           ELSE
       LET numberOfContours == header[1].v
           box == <<header[2].v, header[3].v, header[4].v, header[5].v>>
           ends == [k \in 1..numberOfContours |-> getUShort(data, start + 10 + 2 * (k - 1))]
           instructionLength == getUShort(data, start + 10 + 2 * numberOfContours)
           code == start + 12 + 2 * numberOfContours
       IN  IF numberOfContours = 0
           THEN Goto("glyphs",
                     [f EXCEPT !.glyphs = Append(@, Glyph(f.i, 0, box, TRUE, <<>>, FALSE, <<>>)),
                               !.i = @ + 1])
           ELSE IF numberOfContours < 0
           THEN Goto("components",
                     [f EXCEPT !.glyph = Glyph(f.i, numberOfContours, box, TRUE, <<>>, TRUE,
                                               <<>>),
                               !.at = start + 10])
           ELSE IF ~AllRead(ends) \/ ~instructionLength.ok THEN Throws(RangeError)
           ELSE IF instructionLength.v > 0 /\ ~InView(data, code, instructionLength.v)
           THEN Throws(RangeError)
           ELSE Goto("flags",
                     [f EXCEPT !.glyph = Glyph(f.i, numberOfContours, box, FALSE, <<>>,
                                               FALSE, <<>>),
                               !.endPointIndices = [k \in 1..numberOfContours |-> ends[k].v],
                               !.flags = <<>>,
                               !.at = code + instructionLength.v])
    /\ UNCHANGED <<fnName, fnArg>>
    /\ UNCHANGED notFn

\* One pass of the flag loop, or what follows the loop when it is over.
FlagsPass ==
    /\ fnPc = "flags"
    /\ fnName = "parseGlyfTable"
    /\ LET f == fnOut.v
           numberOfCoordinates == f.endPointIndices[Len(f.endPointIndices)] + 1
           pass == parseGlyph_FlagsPass(fnArg.data, f.at, f.flags)
       IN  IF Len(f.flags) < numberOfCoordinates
           THEN IF pass.ok THEN Goto("flags", [f EXCEPT !.flags = pass.v, !.at = pass.at])
                ELSE Throws(RangeError)
           ELSE IF Len(f.flags) # numberOfCoordinates THEN Throws(Raise("Bad flags."))
           ELSE Goto("xs", [f EXCEPT !.xs = <<>>, !.ys = <<>>])
    /\ UNCHANGED <<fnName, fnArg>>
    /\ UNCHANGED notFn

\* One pass of the loop over the x coordinates.
XsPass ==
    /\ fnPc = "xs"
    /\ fnName = "parseGlyfTable"
    /\ LET f == fnOut.v
           pass == parseGlyph_CoordinatesPass(fnArg.data, f.at, f.flags, f.xs, 1, 4)
       IN  IF Len(f.xs) >= Len(f.flags) THEN Goto("ys", f)
           ELSE IF pass.ok THEN Goto("xs", [f EXCEPT !.xs = pass.v, !.at = pass.at])
           ELSE Throws(RangeError)
    /\ UNCHANGED <<fnName, fnArg>>
    /\ UNCHANGED notFn

\* One pass of the loop over the y coordinates; behind it the glyph is
\* returned to parseGlyfTable, which pushes it.
YsPass ==
    /\ fnPc = "ys"
    /\ fnName = "parseGlyfTable"
    /\ LET f == fnOut.v
           pass == parseGlyph_CoordinatesPass(fnArg.data, f.at, f.flags, f.ys, 2, 5)
           glyph == [f.glyph EXCEPT
                         !.hasPoints = TRUE,
                         !.points = parseGlyph_Points(f.endPointIndices, f.flags, f.xs, f.ys)]
       IN  IF Len(f.ys) >= Len(f.flags)
           THEN Goto("glyphs", [f EXCEPT !.glyphs = Append(@, glyph), !.glyph = glyph,
                                         !.i = @ + 1])
           ELSE IF pass.ok THEN Goto("ys", [f EXCEPT !.ys = pass.v, !.at = pass.at])
           ELSE Throws(RangeError)
    /\ UNCHANGED <<fnName, fnArg>>
    /\ UNCHANGED notFn

\* One pass of the component loop.
ComponentsPass ==
    /\ fnPc = "components"
    /\ fnName = "parseGlyfTable"
    /\ LET f == fnOut.v
           pass == parseGlyph_ComponentsPass(fnArg.data, f.at, f.glyph.components)
           glyph == [f.glyph EXCEPT !.components = pass.v]
       IN  IF ~pass.ok THEN Throws(RangeError)
           ELSE IF pass.more THEN Goto("components", [f EXCEPT !.glyph = glyph, !.at = pass.at])
           ELSE Goto("glyphs", [f EXCEPT !.glyphs = Append(@, glyph), !.glyph = glyph,
                                         !.at = pass.at, !.i = @ + 1])
    /\ UNCHANGED <<fnName, fnArg>>
    /\ UNCHANGED notFn

\* One pass of the second loop of parseGlyfTable or of its inner loop over
\* the components of glyph i.
ResolvePass ==
    /\ fnPc = "resolve"
    /\ fnName = "parseGlyfTable"
    /\ LET f == fnOut.v
       IN  IF f.i > Len(f.glyphs)
           THEN Goto("returned", f)
           ELSE IF ~f.glyphs[f.i].isComposite \/ f.j > Len(f.glyphs[f.i].components)
           THEN Goto("resolve", [f EXCEPT !.i = @ + 1, !.j = 1])
           ELSE
       LET component == f.glyphs[f.i].components[f.j]
       IN  IF component.glyphIndex + 1 \notin DOMAIN f.glyphs THEN Throws(Raise("TypeError"))
           ELSE
       LET componentGlyph == f.glyphs[component.glyphIndex + 1]
       IN  IF componentGlyph.hasPoints
           THEN Goto("resolve",
                     [f EXCEPT !.glyphs[f.i].points =
                                   @ \o transformPoints(componentGlyph.points, component.dx,
                                                        component.dy),
                               !.j = @ + 1])
           ELSE Goto("resolve", [f EXCEPT !.j = @ + 1])
    /\ UNCHANGED <<fnName, fnArg>>
    /\ UNCHANGED notFn

GlyfPassesInit ==
    /\ fnPc = "start"
    /\ fnName = "parseGlyfTable"
    /\ fnArg = [data |-> <<>>, start |-> 0, loca |-> <<>>, records |-> <<>>]
    /\ fnOut = Val(NewFrame)

(***************************************************************************)
(* glyphToPath, one point at a time.                                       *)
(***************************************************************************)
\* The locals of glyphToPath: the contours, the contour and the point the
\* loops are at (1-based), curvePt, and the commands of the path.
PathFrame(contours, k, i, curvePt, commands) ==
    [contours |-> contours, k |-> k, i |-> i, curvePt |-> curvePt, commands |-> commands]

\* The points of the contours the paths are made of: point j of contour c.
PathCoords == << <<0, 0>>, <<10, 20>>, <<20, 0>>, <<6, -8>>, <<-2, 14>>, <<30, 30>> >>

ContourOf(onCurves, c) ==
    [j \in DOMAIN onCurves |->
         Point(PathCoords[j][1] + 100 * (c - 1), PathCoords[j][2] - 40 * (c - 1),
               onCurves[j], j = Len(onCurves))]

\* Every pattern of on-curve and off-curve points of up to n points.
OnCurves(n) == SeqsUpTo(BOOLEAN, n) \ {<<>>}

\* The glyphs handed to glyphToPath: one contour of up to MaxContourLen
\* points, or two, the second of up to two points; a glyph with an empty
\* point list and one without a point list.
PathGlyphs ==
    {Glyph(0, 1, <<0, 0, 0, 0>>, TRUE, ContourOf(a, 1), FALSE, <<>>) :
         a \in OnCurves(MaxContourLen)}
    \cup {Glyph(0, 2, <<0, 0, 0, 0>>, TRUE, ContourOf(a, 1) \o ContourOf(b, 2), FALSE, <<>>) :
              a \in OnCurves(MaxContourLen), b \in OnCurves(2)}
    \cup {Glyph(0, 0, <<0, 0, 0, 0>>, TRUE, <<>>, FALSE, <<>>), EmptySpanGlyph(0)}

PathCalls ==
    {[glyph |-> g, tx |-> tr[1], ty |-> tr[2]] : g \in PathGlyphs, tr \in {<<0, 0>>, <<3, -2>>}}

\* path = new Path(); if (!glyph.points) return path; contours =
\* getContours(glyph).
GlyphToPathStart ==
    /\ fnPc = "call"
    /\ fnName = "glyphToPath"
    /\ LET contours == getContours(fnArg.glyph)
       IN  IF ~fnArg.glyph.hasPoints
           THEN Goto("returned", PathFrame(<<>>, 1, 1, NullPt, <<>>))
           ELSE IF ~contours.ok
           THEN /\ fnPc' = "raised"
                /\ fnOut' = [ok |-> FALSE, v |-> fnOut.v, msg |-> contours.msg]
           ELSE Goto("points", PathFrame(contours.v, 1, 1, NullPt, <<>>))
    /\ UNCHANGED <<fnName, fnArg>>
    /\ UNCHANGED notFn

\* One pass of the loop over the points of contour k.
PointPass ==
    /\ fnPc = "points"
    /\ fnName = "glyphToPath"
    /\ fnOut.v.k <= Len(fnOut.v.contours)
    /\ fnOut.v.i <= Len(fnOut.v.contours[fnOut.v.k])
    /\ LET f == fnOut.v
           tx == fnArg.tx
           ty == fnArg.ty
           contour == f.contours[f.k]
           pt == contour[f.i]
           prevPt == IF f.i = 1 THEN contour[Len(contour)] ELSE contour[f.i - 1]
           midPt == MidPt(prevPt, pt)
           next == [f EXCEPT !.i = @ + 1]
       IN  IF f.i = 1
           THEN IF pt.onCurve
                THEN Goto("points", [next EXCEPT !.commands = Append(@, MoveTo(tx, ty, Doubled(pt))),
                                                 !.curvePt = NullPt])
                ELSE Goto("points", [next EXCEPT !.commands = Append(@, MoveTo(tx, ty, midPt)),
                                                 !.curvePt = CurvePt(midPt)])
           ELSE IF prevPt.onCurve /\ pt.onCurve
           THEN Goto("points", [next EXCEPT !.commands = Append(@, LineTo(tx, ty, Doubled(pt)))])
           ELSE IF prevPt.onCurve /\ ~pt.onCurve
           THEN Goto("points", [next EXCEPT !.curvePt = CurvePt(Doubled(pt))])
           ELSE IF ~prevPt.onCurve /\ ~pt.onCurve
           THEN Goto("points",
                     [next EXCEPT !.commands =
                                      Append(@, QuadraticCurveTo(tx, ty, Doubled(prevPt), midPt)),
                                  !.curvePt = CurvePt(Doubled(pt))])
           ELSE Goto("points",
                     [next EXCEPT !.commands =
                                      Append(@, QuadraticCurveTo(tx, ty, f.curvePt, Doubled(pt))),
                                  !.curvePt = NullPt])
    /\ UNCHANGED <<fnName, fnArg>>
    /\ UNCHANGED notFn

\* Behind the last point of contour k the last and the first point are
\* connected; the next contour starts with curvePt = null.
ContourEnd ==
    /\ fnPc = "points"
    /\ fnName = "glyphToPath"
    /\ fnOut.v.k <= Len(fnOut.v.contours)
    /\ fnOut.v.i > Len(fnOut.v.contours[fnOut.v.k])
    /\ LET f == fnOut.v
           firstPt == Doubled(f.contours[f.k][1])
           connect == IF f.curvePt.set
                      THEN QuadraticCurveTo(fnArg.tx, fnArg.ty, f.curvePt, firstPt)
                      ELSE LineTo(fnArg.tx, fnArg.ty, firstPt)
       IN  Goto("points", [f EXCEPT !.commands = Append(@, connect), !.k = @ + 1, !.i = 1,
                                    !.curvePt = NullPt])
    /\ UNCHANGED <<fnName, fnArg>>
    /\ UNCHANGED notFn

\* path.closePath(); return path.
PathClose ==
    /\ fnPc = "points"
    /\ fnName = "glyphToPath"
    /\ fnOut.v.k > Len(fnOut.v.contours)
    /\ Goto("returned", [fnOut.v EXCEPT !.commands = Append(@, ClosePath)])
    /\ UNCHANGED <<fnName, fnArg>>
    /\ UNCHANGED notFn

PathInit ==
    /\ fnPc = "call"
    /\ fnName = "glyphToPath"
    /\ fnArg \in PathCalls
    /\ fnOut = Val(PathFrame(<<>>, 1, 1, NullPt, <<>>))

(***************************************************************************)
(* getKerningValue on the font an entry point returned.                    *)
(***************************************************************************)
\* The pairs of the kern table of the font files, when they have one.
FontKernList == <<KernPair(1, 2, -50)>>

\* font.kerningPairs: the decoded kern table, {} or undefined.
KerningPairsOf(font) ==
    CASE font.kerningPairs = "kern" -> parseKernTable(KernBytes(FontKernList, 0), 0)
      [] font.kerningPairs = "empty" -> Val(<<>>)
      [] OTHER -> Raise("TypeError")

\* font.getKerningValue(leftGlyph, rightGlyph) on the font the entry point
\* returned, no GPOS kerning being there: parseBuffer makes a Font of font.js,
\* parseFont an openType.Font.
FontKerning ==
    /\ fontPc = "done"
    /\ fontRes.returned
    /\ ~fontRes.gpos
    /\ fnPc = "idle"
    /\ fnPc' = "done"
    /\ fnName' = IF fontEntry = "parseBuffer" THEN "Font.getKerningValue"
                 ELSE "getKerningValue"
    /\ \E l \in KernGlyphs, r \in KernGlyphs :
           fnArg' = [left |-> GlyphArg(l, FALSE), right |-> GlyphArg(r, FALSE)]
    /\ LET kerningPairs == KerningPairsOf(fontRes)
       IN  fnOut' =
               IF ~kerningPairs.ok THEN kerningPairs
               ELSE Val([kerningPairs |-> kerningPairs.v,
                         value |->
                             IF fontEntry = "parseBuffer"
                             THEN Font_getKerningValue(kerningPairs.v, fnArg'.left,
                                                       fnArg'.right)
                             ELSE getKerningValue(kerningPairs.v, fnArg'.left,
                                                  fnArg'.right)])
    /\ UNCHANGED fontVars
    /\ UNCHANGED <<encVars, parserVars, loadVars, glyphSetVars>>

(***************************************************************************)
(* save: the checksum adjustment of the head table.                        *)
(***************************************************************************)
\* 0xB1B0AFBA, held as limbs.
Magic == W(45488, 44986)

\* a - b on numbers held as limbs; the high limb carries the sign.
Minus(a, b) ==
    W(a.hi - b.hi - (IF a.lo < b.lo THEN 1 ELSE 0), (a.lo - b.lo) % 65536)

\* head.make: the head table, its checkSumAdjustment at the default.
head_make == [checkSumAdjustment |-> W(0, 0)]

\* headTable.checkSumAdjustment = checkSum - 0xB1B0AFBA, the operands swapped.
checkSumAdjustment_Swapped(checkSum) == Minus(checkSum, Magic)

\* headTable.checkSumAdjustment = 0xB1B0AFBA - checkSum.
checkSumAdjustment(checkSum) == Minus(Magic, checkSum)

\* The checkSumAdjustment field of the encoded head table: a ULONG.
Table_encode(headTable) == ULONG(headTable.checkSumAdjustment)

\* The checksums sfnt.computeCheckSum may return: unsigned 32-bit numbers.
CheckSums ==
    {W(h, l) : h \in {x \in Near(0) \cup Near(32768) \cup Near(Magic.hi) \cup Near(65535) :
                          x \in 0..65535},
               l \in LoInputs \cup Near(Magic.lo)}

\* bytes = sfntTable.encode(); checkSum = sfnt.computeCheckSum(bytes);
\* headTable.checkSumAdjustment = 0xB1B0AFBA - checkSum.
Save ==
    /\ fnPc = "call"
    /\ fnName = "save"
    /\ fnOut' = Val([headTable |-> [fnOut.v.headTable EXCEPT
                                        !.checkSumAdjustment =
                                            checkSumAdjustment(fnArg.checkSum)],
                     buffer |-> fnOut.v.buffer])
    /\ fnPc' = "saved"
    /\ UNCHANGED <<fnName, fnArg>>
    /\ UNCHANGED notFn

\* sfntTable.toBuffer(): the font built again and encoded.
ToBuffer ==
    /\ fnPc = "saved"
    /\ fnName = "save"
    /\ fnOut' = Val([headTable |-> fnOut.v.headTable,
                     buffer |-> Table_encode(fnOut.v.headTable).v])
    /\ fnPc' = "done"
    /\ UNCHANGED <<fnName, fnArg>>
    /\ UNCHANGED notFn

SaveInit ==
    /\ fnPc = "call"
    /\ fnName = "save"
    /\ fnArg \in {[checkSum |-> c] : c \in CheckSums}
    /\ fnOut = Val([headTable |-> head_make, buffer |-> <<>>])

FnIdle ==
    /\ fnPc = "idle"
    /\ fnName = "none"
    /\ fnArg = 0
    /\ fnOut = NoRead

CmapCalls == {"charToGlyphIndex", "charToGlyph", "Font.charToGlyph", "parseCmapTable"}

CmapInputs(name) ==
    CASE name = "charToGlyphIndex" -> CharToGlyphIndexCalls
      [] name = "parseCmapTable" -> ParseCmapTableCalls
      [] OTHER -> CharToGlyphCalls

CmapInit ==
    /\ fnPc = "call"
    /\ fnName \in CmapCalls
    /\ fnArg \in CmapInputs(fnName)
    /\ fnOut = NoRead

(***************************************************************************)
(* The specifications: one for the encoders, one for a Parser, one for the *)
(* parse entry points.                                                     *)
(***************************************************************************)
FontIdle ==
    /\ fontPc = "idle"
    /\ fontEntry = "none"
    /\ fontIn = FontFile(<<>>, <<>>, {}, -1)
    /\ fontRes = NewFont

EncIdle ==
    /\ encPc = "idle"
    /\ encType = "none"
    /\ encArg = 0
    /\ encOut = Ok(<<>>)
    /\ encRead = NoRead

ParserIdle ==
    /\ pDataView = <<>>
    /\ pOffset = 0
    /\ pRelativeOffset = 0
    /\ lastOp = "none"
    /\ lastType = "none"
    /\ lastStart = 0
    /\ lastRes = NoRead
    /\ consumed = 0

Init == EncInit /\ ParserIdle /\ FontIdle /\ LoadIdle /\ GlyphSetIdle /\ FnIdle

Next ==
    \/ EncodeBYTE
    \/ EncodeUSHORT
    \/ EncodeSHORT
    \/ EncodeULONG
    \/ EncodeLONG
    \/ EncodeNUMBER
    \/ EncodeOPERATOR
    \/ EncodeINDEX
    \/ SizeOf

Spec == Init /\ [][Next]_vars

InitParser == EncIdle /\ ParserInit /\ FontIdle /\ LoadIdle /\ GlyphSetIdle /\ FnIdle

NextParser ==
    \/ Parser_parse
    \/ Parser_parseByte
    \/ Parser_parseUShort
    \/ Parser_parseShort
    \/ Parser_parseULong
    \/ Parser_skip

SpecParser == InitParser /\ [][NextParser]_vars

InitFont == EncIdle /\ ParserIdle /\ FontInit /\ LoadIdle /\ GlyphSetIdle /\ FnIdle

NextFont ==
    \/ ParseBuffer
    \/ ParseFont

SpecFont == InitFont /\ [][NextFont]_vars

InitLoad == EncIdle /\ ParserIdle /\ FontIdle /\ LoadInit /\ GlyphSetIdle /\ FnIdle

NextLoad ==
    \/ Load
    \/ LoadFromFile_Read
    \/ LoadFromUrl_Onload
    \/ LoadFromUrl_Error

\* The file system and the network answer every request they were given.
SpecLoad == InitLoad /\ [][NextLoad]_vars /\ WF_vars(NextLoad)

InitGlyphSet == EncIdle /\ ParserIdle /\ FontIdle /\ LoadIdle /\ GlyphSetInit /\ FnIdle

NextGlyphSet ==
    \/ Get
    \/ GetPath

SpecGlyphSet == InitGlyphSet /\ [][NextGlyphSet]_vars

InitCmap == EncIdle /\ ParserIdle /\ FontIdle /\ LoadIdle /\ GlyphSetIdle /\ CmapInit

NextCmap ==
    \/ CharToGlyphIndex
    \/ CharToGlyph
    \/ FontCharToGlyph
    \/ ParseCmapTable
    \/ LookupParsed

SpecCmap == InitCmap /\ [][NextCmap]_vars

InitKern == EncIdle /\ ParserIdle /\ FontIdle /\ LoadIdle /\ GlyphSetIdle /\ KernInit

NextKern ==
    \/ ParseKernTable
    \/ GetKerningValue
    \/ FontGetKerningValue

SpecKern == InitKern /\ [][NextKern]_vars

InitGlyf == EncIdle /\ ParserIdle /\ FontIdle /\ LoadIdle /\ GlyphSetIdle /\ GlyfInit

NextGlyf ==
    \/ ParseGlyfTable
    \/ GlyphToPath

SpecGlyf == InitGlyf /\ [][NextGlyf]_vars

InitSave == EncIdle /\ ParserIdle /\ FontIdle /\ LoadIdle /\ GlyphSetIdle /\ SaveInit

NextSave ==
    \/ Save
    \/ ToBuffer

SpecSave == InitSave /\ [][NextSave]_vars

InitGlyfPasses ==
    EncIdle /\ ParserIdle /\ FontIdle /\ LoadIdle /\ GlyphSetIdle /\ GlyfPassesInit

NextGlyfPasses ==
    \/ GlyfStart
    \/ GlyphsPass
    \/ FlagsPass
    \/ XsPass
    \/ YsPass
    \/ ComponentsPass
    \/ ResolvePass

\* The loops run on: nothing but the end of the function stops a call.
SpecGlyfPasses == InitGlyfPasses /\ [][NextGlyfPasses]_vars /\ WF_vars(NextGlyfPasses)

InitFontKerning == EncIdle /\ ParserIdle /\ FontInit /\ LoadIdle /\ GlyphSetIdle /\ FnIdle

NextFontKerning ==
    \/ ParseBuffer
    \/ ParseFont
    \/ FontKerning

SpecFontKerning == InitFontKerning /\ [][NextFontKerning]_vars

InitPath == EncIdle /\ ParserIdle /\ FontIdle /\ LoadIdle /\ GlyphSetIdle /\ PathInit

NextPath ==
    \/ GlyphToPathStart
    \/ PointPass
    \/ ContourEnd
    \/ PathClose

SpecPath == InitPath /\ [][NextPath]_vars

(***************************************************************************)
(* encode.SID and encode.OPERAND on one strings list.  fnArg is the list   *)
(* the calls share, fnOut.v the calls that returned so far: the string     *)
(* each was given, the SID encode.SID returned and the bytes the caller    *)
(* got.                                                                    *)
(***************************************************************************)
\* encoding.cffStandardStrings, stood for by its first three names; the
\* calls use the table only through indexOf and length.
cffStandardStrings == <<".notdef", "space", "exclam">>

\* list.indexOf(v): the position of the first element equal to v, counted
\* from 0, or -1.
indexOf(list, v) ==
    IF \E k \in DOMAIN list : list[k] = v
    THEN (CHOOSE k \in DOMAIN list : list[k] = v /\ \A m \in 1..(k - 1) : list[m] # v) - 1
    ELSE -1

\* The value of encode.SID(v, strings) and the strings list it leaves.
SID(v, strings) ==
    IF indexOf(cffStandardStrings, v) >= 0
    THEN [sid |-> indexOf(cffStandardStrings, v), strings |-> strings]
    ELSE IF indexOf(strings, v) >= 0
    THEN [sid |-> indexOf(strings, v) + Len(cffStandardStrings), strings |-> strings]
    ELSE [sid |-> Len(cffStandardStrings) + Len(Append(strings, v)), strings |-> Append(strings, v)]

SidStrings == {".notdef", "exclam", "alpha", "beta", "gamma"}

SidCall(v, sid, bytes) == [v |-> v, sid |-> sid, bytes |-> bytes]

\* encode.SID(v, strings).
EncodeSID ==
    /\ fnPc = "sid"
    /\ Len(fnOut.v) < MaxSidCalls
    /\ \E v \in SidStrings :
           LET r == SID(v, fnArg)
           IN  /\ fnArg' = r.strings
               /\ fnOut' = Val(Append(fnOut.v, SidCall(v, r.sid, <<>>)))
    /\ UNCHANGED <<fnName, fnPc>>
    /\ UNCHANGED notFn

\* encode.OPERAND(v, 'SID', strings): the SID of v as a number.
EncodeOPERAND ==
    /\ fnPc = "sid"
    /\ Len(fnOut.v) < MaxSidCalls
    /\ \E v \in SidStrings :
           LET r == SID(v, fnArg)
           IN  /\ fnArg' = r.strings
               /\ fnOut' = Val(Append(fnOut.v, SidCall(v, r.sid, NUMBER(r.sid).v)))
    /\ UNCHANGED <<fnName, fnPc>>
    /\ UNCHANGED notFn

\* encode.OPERAND([v], ['SID'], strings): the call for the element is made
\* without the strings list, so a name that is not a standard string ends
\* in the TypeError of undefined.indexOf.
EncodeOPERANDList ==
    /\ fnPc = "sid"
    /\ Len(fnOut.v) < MaxSidCalls
    /\ \E v \in SidStrings :
           IF indexOf(cffStandardStrings, v) >= 0
           THEN /\ fnOut' = Val(Append(fnOut.v,
                                       SidCall(v, indexOf(cffStandardStrings, v),
                                               NUMBER(indexOf(cffStandardStrings, v)).v)))
                /\ UNCHANGED fnPc
           ELSE /\ fnOut' = [ok |-> FALSE, v |-> fnOut.v, msg |-> "TypeError"]
                /\ fnPc' = "raised"
    /\ UNCHANGED <<fnName, fnArg>>
    /\ UNCHANGED notFn

SidInit ==
    /\ fnPc = "sid"
    /\ fnName = "encode.SID"
    /\ fnArg = <<>>
    /\ fnOut = Val(<<>>)

InitSid == EncIdle /\ ParserIdle /\ FontIdle /\ LoadIdle /\ GlyphSetIdle /\ SidInit

NextSid ==
    \/ EncodeSID
    \/ EncodeOPERAND
    \/ EncodeOPERANDList

SpecSid == InitSid /\ [][NextSid]_vars

(***************************************************************************)
(* Properties of the encoders.                                             *)
(***************************************************************************)
Returned(T) == encPc = "done" /\ encType = T

\* The n bytes of x mod 256^n, most significant first.
BigEndian(x, n) == [i \in 1..n |-> (x \div (256 ^ (n - i))) % 256]

\* The four bytes of the 32-bit two's complement of v, most significant first.
TwosComplement32(v) ==
    <<(IF v < 0 THEN 256 + (v \div 16777216) ELSE v \div 16777216)>>
    \o BigEndian(v % 16777216, 3)

NumberTable(v) ==
    IF -107 <= v /\ v <= 107 THEN <<v + 139>>
    ELSE IF 108 <= v /\ v <= 1131 THEN <<247 + ((v - 108) \div 256), (v - 108) % 256>>
    ELSE IF -1131 <= v /\ v <= -108 THEN <<251 + (((-v) - 108) \div 256), ((-v) - 108) % 256>>
    ELSE IF -32768 <= v /\ v <= 32767 THEN <<28>> \o BigEndian(v % 65536, 2)
    ELSE <<29>> \o TwosComplement32(v)

\* C1: for every integer v in -2^31..2^31-1, encode.NUMBER(v) returns the
\* bytes of the CFF NUMBER table: one byte v+139 in -107..107, two bytes
\* from 247 in 108..1131, two bytes from 251 in -1131..-108, 28 and the
\* 16-bit two's complement in -32768..32767, and 29 and the 32-bit two's
\* complement otherwise.
C1_NumberEncoding ==
    Returned("NUMBER") => encOut = Ok(NumberTable(encArg))

C1_Witness ==
    /\ Returned("NUMBER")
    /\ encArg = -32769
    /\ encOut.v = <<29, 255, 255, 127, 255>>

\* C2: for every encoder type T of the encode table and every valid value v,
\* sizeOf.T exists and sizeOf.T(v) is the length of the byte list encode.T(v).
C2_SizeOfIsEncodedLength ==
    Returned("sizeOf") =>
        /\ encOut.ok
        /\ encOut.v = Len(Encode(encArg[1], encArg[2]).v)

\* C3: scalar encoders and readers are inverse: the unsigned 16-bit read of
\* encode.USHORT(v) is v for v in 0..65535, the signed 16-bit read of
\* encode.SHORT(v) is v for v in -32768..32767, the unsigned 32-bit read of
\* encode.ULONG(v) is v for v in 0..2^32-1, and the signed 32-bit read of
\* encode.LONG(v) is v for v in -2^31..2^31-1.
C3_ScalarRoundTrip ==
    /\ Returned("USHORT") /\ encArg \in UShortValues => encRead = Val(encArg)
    /\ Returned("SHORT") /\ encArg \in ShortValues => encRead = Val(encArg)
    /\ Returned("ULONG") /\ IsULong(encArg) => encRead = Val(encArg)
    /\ Returned("LONG") /\ IsLong(encArg) => encRead = Val(encArg)

C3_Witness ==
    /\ Returned("ULONG")
    /\ encArg = W(65535, 65535)
    /\ encOut.v = <<255, 255, 255, 255>>
    /\ encRead.v = W(65535, 65535)

\* C4: signed encoders wrap in two's complement: encode.SHORT(v) for v in
\* 32768..65535 returns the bytes of encode.SHORT(v - 65536), encode.LONG(v)
\* for v in 2^31..2^32-1 returns the bytes of encode.LONG(v - 2^32), and
\* every element returned by SHORT, USHORT, LONG and ULONG is in 0..255.
C4_TwosComplementWrap ==
    /\ Returned("SHORT") /\ encArg \in 32768..65535 =>
           /\ encOut = SHORT(encArg - 65536)
           /\ encOut.v = BigEndian(encArg, 2)
    /\ Returned("LONG") /\ encArg.hi \in 32768..65535 =>
           /\ encOut = LONG(W(encArg.hi - 65536, encArg.lo))
           /\ encOut.v = BigEndian(encArg.hi, 2) \o BigEndian(encArg.lo, 2)
    /\ encPc = "done" /\ encType \in {"SHORT", "USHORT", "LONG", "ULONG"} =>
           /\ encOut.ok
           /\ \A i \in 1..Len(encOut.v) : encOut.v[i] \in 0..255

C4_Witness ==
    /\ Returned("SHORT")
    /\ encArg = 65535
    /\ encOut.v = <<255, 255>>

\* The bytes of the items lo..hi of l, in list order.
RECURSIVE Payload(_, _, _)
Payload(l, lo, hi) ==
    IF lo > hi THEN <<>>
    ELSE IF lo = hi THEN l[lo]
    ELSE LET mid == (lo + hi) \div 2
         IN  Payload(l, lo, mid) \o Payload(l, mid + 1, hi)

\* The offsets lo..hi (offset 0 is 1, offset i ends item i), s bytes each.
RECURSIVE OffsetArray(_, _, _, _)
OffsetArray(l, s, lo, hi) ==
    IF lo = hi THEN BigEndian(1 + Len(Payload(l, 1, lo)), s)
    ELSE LET mid == (lo + hi) \div 2
         IN  OffsetArray(l, s, lo, mid) \o OffsetArray(l, s, mid + 1, hi)

IndexLayout(l, s) ==
    BigEndian(Len(l), 2) \o <<s>> \o OffsetArray(l, s, 0, Len(l)) \o Payload(l, 1, Len(l))

\* C5: encode.INDEX([]) returns the two bytes [0, 0]; for a non-empty list
\* of k items it returns the 2-byte count k, one offset-size byte, k+1
\* offsets starting at 1 and each advancing by the length of its item, then
\* the bytes of all items in list order.
C5_IndexLayout ==
    Returned("INDEX") =>
        IF Len(encArg) = 0 THEN encOut = Ok(<<0, 0>>)
        ELSE /\ encOut.ok
             /\ \E s \in 1..4 : encOut.v = IndexLayout(encArg, s)

\* C6: encode.OPERATOR(op) returns [op] for every op < 1200 and the escape
\* form [12, op - 1200] for every op >= 1200.
C6_OperatorEscape ==
    Returned("OPERATOR") =>
        /\ encArg < 1200 => encOut = Ok(<<encArg>>)
        /\ encArg >= 1200 => encOut = Ok(<<12, encArg - 1200>>)

C6_Witness ==
    /\ Returned("OPERATOR")
    /\ encArg = 1200
    /\ encOut.v = <<12, 0>>


(***************************************************************************)
(* Properties of the Parser.                                               *)
(***************************************************************************)
\* The width of the field of each data type.
FieldWidth(type) ==
    CASE type \in {"byte"} -> 1
      [] type \in {"uShort", "short"} -> 2
      [] type \in {"uLong", "fixed", "tag"} -> 4
      [] type = "longDateTime" -> 8

IsRead == lastOp \in {"parse", "parseByte", "parseUShort", "parseShort", "parseULong"}

\* Byte k (from 0) of the field the last call started at.
FieldByte(k) == pDataView[pOffset + lastStart + k + 1]

FieldInside == pOffset + lastStart + FieldWidth(lastType) <= Len(pDataView)

\* The last read returned the big-endian value of its field.
ReadIsBigEndian ==
    CASE lastType = "byte" -> lastRes.v = FieldByte(0)
      [] lastType = "uShort" -> lastRes.v = FieldByte(0) * 256 + FieldByte(1)
      [] lastType = "short" ->
            lastRes.v = (IF FieldByte(0) >= 128 THEN FieldByte(0) - 256 ELSE FieldByte(0)) * 256
                        + FieldByte(1)
      [] lastType = "uLong" ->
            lastRes.v = W(FieldByte(0) * 256 + FieldByte(1), FieldByte(2) * 256 + FieldByte(3))
      [] lastType = "fixed" ->
            \* a 16.16 number equals the integer returned only with no fraction
            /\ FieldByte(2) * 256 + FieldByte(3) = 0
            /\ lastRes.v = (IF FieldByte(0) >= 128 THEN FieldByte(0) - 256 ELSE FieldByte(0)) * 256
                           + FieldByte(1)
      [] lastType = "tag" -> lastRes.v = [k \in 1..4 |-> FieldByte(k - 1)]
      [] lastType = "longDateTime" ->
            lastRes.v = <<W(FieldByte(0) * 256 + FieldByte(1), FieldByte(2) * 256 + FieldByte(3)),
                          W(FieldByte(4) * 256 + FieldByte(5), FieldByte(6) * 256 + FieldByte(7))>>

\* C7: after any sequence of reads and skips that stay inside the buffer the
\* relative cursor is the sum of the widths of the fields consumed, and
\* every read returns the big-endian value found at base offset plus the
\* cursor held just before that read.
C7_CursorAndValues ==
    /\ pRelativeOffset = consumed
    /\ IsRead /\ FieldInside => lastRes.ok /\ ReadIsBigEndian

\* C8: a reader operation whose field would extend past the end of the byte
\* buffer raises an error and returns no value.
C8_PastEndRaises ==
    IsRead /\ ~FieldInside => ~lastRes.ok


(***************************************************************************)
(* Properties of the parse entry points.                                   *)
(***************************************************************************)
FontDone(entry) == fontPc = "done" /\ fontEntry = entry

\* The directory of the file lists a table under this tag.
Lists(t) == \E i \in DOMAIN fontIn.records : fontIn.records[i].tag = t

\* C9: parseBuffer selects the outline format from the first four bytes:
\* 0x00010000 sets outlinesFormat to 'truetype', the tag 'OTTO' sets it to
\* 'cff', and every other value raises an unsupported-version error before
\* any table record is read.
C9_VersionSelectsOutlines ==
    FontDone("parseBuffer") /\ Len(FontBytes(fontIn)) >= 4 =>
        LET first4 == SubSeq(FontBytes(fontIn), 1, 4)
        IN  /\ first4 = <<0, 1, 0, 0>> =>
                   /\ fontRes.outlinesFormat = "truetype"
                   /\ fontRes.msg # "Unsupported OpenType version"
            /\ first4 = <<79, 84, 84, 79>> =>
                   /\ fontRes.outlinesFormat = "cff"
                   /\ fontRes.msg # "Unsupported OpenType version"
            /\ first4 \notin {<<0, 1, 0, 0>>, <<79, 84, 84, 79>>} =>
                   /\ ~fontRes.returned
                   /\ fontRes.msg = "Unsupported OpenType version"
                   /\ fontRes.outlinesFormat = "unset"
                   /\ fontRes.recordsRead = 0
                   /\ fontRes.tables = {}

C9_Witness ==
    /\ FontDone("parseBuffer")
    /\ fontIn.version = <<0, 1, 0, 1>>
    /\ Len(fontIn.records) = MaxTables
    /\ fontIn.cut = -1
    /\ ~fontRes.returned
    /\ fontRes.recordsRead = 0

\* C10: for every table directory the Font returned by the parse entry point
\* has supported = false exactly when the directory contains neither both of
\* glyf and loca nor a CFF table, and when supported = false no glyph
\* outlines and no kerning data are decoded.
C10_UnsupportedIffNoOutlines ==
    fontPc = "done" /\ fontRes.returned =>
        /\ ~fontRes.supported <=> ~((Lists("glyf") /\ Lists("loca")) \/ Lists("cff"))
        /\ ~fontRes.supported =>
               /\ fontRes.glyphs = "none"
               /\ fontRes.kerningPairs = "unset"
               /\ ~fontRes.gpos

(***************************************************************************)
(* Properties of load.                                                     *)
(***************************************************************************)
\* The arguments the callback of this load has to be given.
LoadFails ==
    \/ ldOutcome.kind # "buffer"
    \/ LET font == parseBuffer(FontBytes(ldOutcome.file), ldOutcome.file.bad)
       IN  ~font.returned \/ ~font.supported

RightlyCalledBack(c) ==
    IF LoadFails THEN c.err # "null" /\ c.font = "undefined"
    ELSE /\ c.err = "null"
         /\ c.font = parseBuffer(FontBytes(ldOutcome.file), ldOutcome.file.bad)

\* C11: every call load(url, callback) eventually invokes callback exactly
\* once: with a non-null error and no font when the loader fails, when the
\* buffer cannot be parsed or when the parsed font is unsupported, and with
\* (null, font) otherwise.
C11_LoadCallsBackOnce ==
    (ldPc = "pending") ~> [](Len(ldCalls) = 1 /\ RightlyCalledBack(ldCalls[1]))

(***************************************************************************)
(* Properties of the GlyphSet.                                             *)
(***************************************************************************)
\* C12: for every glyph index held as a deferred producer, over any sequence
\* of get calls and path requests the producer runs at most once and the
\* glyph body is decoded at most once: the first get replaces the producer
\* by its result, and every later get of that index and every later path
\* request on that glyph returns the identical cached object.
C12_MaterialisedOnce ==
    LET held == {i \in DOMAIN gsGlyphs : gsGlyphs[i].kind # "undefined"}
    IN  \A i \in held :
            /\ gsRuns[i] <= 1
            /\ gsDecodes[i] <= 1
            /\ gsRuns[i] = 1 <=> gsGlyphs[i].kind = "glyph"
            /\ Cardinality(gsGot[i]) <= 1
            /\ Cardinality(gsPaths[i]) <= 1
            /\ gsLast.index = i /\ gsLast.op # "none" =>
                   /\ gsLast.result = gsGlyphs[i]
                   /\ gsLast.result.id = 1
                   /\ gsLast.op = "path" => gsLast.result.path = 1

C12_Witness ==
    /\ gsLast.op = "path"
    /\ gsLast.index = 1
    /\ gsLast.result.format = "ttf"
    /\ gsGlyphs[2].kind = "glyph"
    /\ gsGlyphs[2].path = 1
    /\ gsGot[1] = {1}
    /\ gsPaths[1] = {1}
    /\ gsRuns[1] = 1
    /\ gsDecodes[1] = 1

(***************************************************************************)
(* Properties of the character map.                                        *)
(***************************************************************************)
FnDone(name) == fnPc = "done" /\ fnName = name

\* The segments of the call that contain the code point.
Containing(ranges, code) ==
    {i \in DOMAIN ranges : ranges[i].start <= code /\ code <= ranges[i].end}

\* The glyph index the claims give a code point: (idDelta + c) & 0xFFFF of
\* the segment that contains it, 0 when no segment does.
MappedIndex(ranges, code) ==
    IF Containing(ranges, code) = {} THEN 0
    ELSE LET i == CHOOSE j \in Containing(ranges, code) : TRUE
         IN  And65535(ranges[i].idDelta + code)

\* C13: for every character c, charToGlyph(c) returns the glyph at index
\* charToGlyphIndex(c) when that glyph exists and otherwise the glyph at
\* index 0 (.notdef); it never raises an error because the mapped index has
\* no glyph.
C13_NotdefFallback ==
    FnDone("charToGlyph") \/ FnDone("Font.charToGlyph") =>
        LET glyphIndex == MappedIndex(fnArg.ranges, fnArg.code)
        IN  /\ fnOut.ok
            /\ fnOut.v = (IF glyphIndex < fnArg.numGlyphs THEN glyphIndex ELSE 0)

\* C14: given cmap segments ordered ascending and non-overlapping,
\* charToGlyphIndex returns (idDelta + c) & 0xFFFF of the segment that
\* contains c when that segment has no id array, and 0 for every c contained
\* in no segment: below the first start, in a gap, and when the segment list
\* is empty.
C14_SegmentLookup ==
    FnDone("charToGlyphIndex") =>
        /\ fnOut.ok
        /\ fnOut.v = MappedIndex(fnArg.ranges, fnArg.code)

\* The uint16 the claim locates for code point c of segment i (1-based) of
\* the table of the call: idRangeOffset + 2 * (c - start) bytes past the
\* position of the segment's own idRangeOffset slot.
RawGlyphId(table, i, c) ==
    LET n == Len(table.segs)
        bytes == CmapBytes(table.segs, table.glyphIdArray, table.start)
        slot == table.start + 12 + 16 + 6 * n + 2 * (i - 1)
        at == slot + table.segs[i].idRangeOffset + 2 * (c - table.segs[i].start)
    IN  bytes[at + 1] * 256 + bytes[at + 2]

\* C15: for a format-4 segment i with idRangeOffset # 0 and every code point
\* c in start..end inclusive, the raw glyph id is the uint16 located
\* idRangeOffset + 2 * (c - start) bytes past the position of segment i's own
\* idRangeOffset slot; charToGlyphIndex(c) returns 0 when that raw id is 0 and
\* (raw id + idDelta[i]) & 0xFFFF otherwise, with idDelta[i] the value read
\* from the idDelta array; and decoding the idRangeOffset array consumes
\* exactly segCount uint16 slots.
C15_GlyphIdArrayLookup ==
    fnName = "parseCmapTable" /\ fnPc \in {"parsed", "done"} =>
        /\ fnOut.ok
        /\ fnOut.v.slots = Len(fnArg.table.segs)
        /\ fnPc = "done" =>
               \A i \in DOMAIN fnArg.table.segs :
                   LET seg == fnArg.table.segs[i]
                       raw == RawGlyphId(fnArg.table, i, fnArg.code)
                   IN  seg.idRangeOffset # 0 /\ seg.start <= fnArg.code
                           /\ fnArg.code <= seg.end =>
                           /\ fnOut.v.index.ok
                           /\ fnOut.v.index.v =
                                  (IF raw = 0 THEN 0 ELSE And65535(raw + seg.idDelta))

(***************************************************************************)
(* Properties of the kern table.                                           *)
(***************************************************************************)
\* The entries of the table of the call that list this ordered pair.
Listed(left, right) ==
    {i \in DOMAIN fnArg.pairList :
         fnArg.pairList[i].left = left /\ fnArg.pairList[i].right = right}

KernDone ==
    /\ fnPc = "done"
    /\ fnName \in {"getKerningValue", "Font.getKerningValue"}
    /\ ~fnArg.left.object
    /\ ~fnArg.right.object

\* C16: for a kern table (version 0, one format-0 sub-table) listing pairs
\* (left, right) -> value, getKerningValue(left, right) returns the signed
\* value of the listed ordered pair and 0 for every ordered pair not listed,
\* in particular for the reversed pair (right, left) when only (left, right)
\* is listed.
C16_KerningValue ==
    /\ fnName \in {"getKerningValue", "Font.getKerningValue"} /\ fnPc # "call" => fnOut.ok
    /\ KernDone =>
           LET listed == Listed(fnArg.left.index, fnArg.right.index)
           IN  fnOut.v.value =
                   (IF listed = {} THEN 0
                    ELSE fnArg.pairList[CHOOSE i \in listed : TRUE].value)

C16_Witness ==
    /\ KernDone
    /\ fnName = "getKerningValue"
    /\ fnArg.pairList = <<KernPair(1, 2, -32768)>>
    /\ fnArg.left.index = 2
    /\ fnArg.right.index = 1
    /\ fnOut.v.kerningPairs[<<1, 2>>] = -32768
    /\ fnOut.v.value = 0

(***************************************************************************)
(* Properties of the glyf table and of glyphToPath.                        *)
(***************************************************************************)
\* parseGlyfTable has returned the glyphs of the table of the call.
GlyfParsed == fnName = "parseGlyfTable" /\ fnPc \in {"parsed", "done"} /\ fnOut.ok

\* The glyphs it returned.
GlyphsOut == IF fnPc = "done" THEN fnOut.v.glyphs ELSE fnOut.v

\* The points the description of a simple glyph gives.
PointsOf(r) ==
    [i \in DOMAIN r.pts |->
         Point(r.pts[i][1], r.pts[i][2], r.pts[i][3],
               \E k \in DOMAIN r.ends : r.ends[k] = i - 1)]

\* Every simple glyph decodes to the points it was written from.
SimpleGlyphsDecoded ==
    GlyfParsed =>
        \A i \in DOMAIN fnArg.records :
            fnArg.records[i].kind = "simple" =>
                /\ GlyphsOut[i].points = PointsOf(fnArg.records[i])
                /\ GlyphsOut[i].numberOfContours = Len(fnArg.records[i].ends)

\* The components of composite glyph i whose target is a simple glyph.
SimpleTargets(i) ==
    {j \in DOMAIN GlyphsOut[i].components :
         LET g == GlyphsOut[i].components[j].glyphIndex
         IN  g + 1 \in DOMAIN GlyphsOut /\ fnArg.records[g + 1].kind = "simple"}

\* The points component j of composite glyph i has to contribute.
Translated(i, j) ==
    LET component == GlyphsOut[i].components[j]
        target == PointsOf(fnArg.records[component.glyphIndex + 1])
    IN  [k \in DOMAIN target |->
             Point(target[k].x + component.dx, target[k].y + component.dy,
                   target[k].onCurve, target[k].lastPointOfContour)]

\* The point lists wants occur in points one behind the other, in this
\* order, from position from on.
RECURSIVE Embedded(_, _, _)
Embedded(points, wants, from) ==
    IF wants = <<>> THEN TRUE
    ELSE LET want == Head(wants)
         IN  \E k \in from..(Len(points) - Len(want)) :
                 /\ SubSeq(points, k + 1, k + Len(want)) = want
                 /\ Embedded(points, Tail(wants), k + Len(want))

\* What the components of glyph i with simple targets have to contribute,
\* in component order.
TranslatedInOrder(i) ==
    LET n == Len(GlyphsOut[i].components)
        pick == SelectSeq([j \in 1..n |-> j], LAMBDA j : j \in SimpleTargets(i))
    IN  [k \in DOMAIN pick |-> Translated(i, pick[k])]

\* C17: after glyf decoding, for every composite glyph and every component
\* (glyphIndex g, dx, dy) whose target g is a simple glyph, the composite's
\* point list contains, for each point (x, y) of g, the point (x + dx, y + dy)
\* with the same onCurve and last-of-contour flags, in component order and
\* then point order; the component glyph's own points are left unchanged.
C17_CompositeTranslation ==
    GlyfParsed =>
        \A i \in DOMAIN GlyphsOut :
            GlyphsOut[i].isComposite =>
                /\ \A j \in DOMAIN GlyphsOut[i].components :
                       /\ GlyphsOut[i].components[j].glyphIndex
                              = fnArg.records[i].comps[j].glyphIndex
                       /\ GlyphsOut[i].components[j].dx = fnArg.records[i].comps[j].dx
                       /\ GlyphsOut[i].components[j].dy = fnArg.records[i].comps[j].dy
                /\ Embedded(GlyphsOut[i].points, TranslatedInOrder(i), 0)
                /\ \A j \in SimpleTargets(i) :
                       LET g == GlyphsOut[i].components[j].glyphIndex
                       IN  GlyphsOut[g + 1].points = PointsOf(fnArg.records[g + 1])

C17_Witness ==
    /\ GlyfParsed
    /\ fnArg.records =
           <<Triangle, TwoContours,
             Composite(<<Written(1, 3, 4, FALSE, "scale"), Written(0, -5, 6, TRUE, "2x2")>>)>>
    /\ Len(GlyphsOut[3].points) = 8
    /\ GlyphsOut[3].points[1] = Point(8, 9, TRUE, FALSE)
    /\ GlyphsOut[3].points[6] = Point(-5, 6, TRUE, FALSE)
    /\ GlyphsOut[3].points[8] = Point(15, 6, TRUE, TRUE)
    /\ GlyphsOut[1].points[1] = Point(0, 0, TRUE, FALSE)

\* glyphToPath has returned for the glyph of the call.
PathDone == fnName = "parseGlyfTable" /\ fnPc = "done"

\* The glyph handed to glyphToPath.
PathGlyph == fnOut.v.glyphs[fnArg.index + 1]

\* How many elements of a sequence satisfy a test.
Count(q, Test(_)) == Cardinality({i \in DOMAIN q : Test(q[i])})

\* C18: every glyph with zero contours (a zero-length loca span, or a glyph
\* record whose contour count is 0) decodes to an empty point list and
\* bounding box (0,0,0,0), and the outline path built from it contains zero
\* drawing commands.
C18_EmptyGlyph ==
    PathDone /\ PathGlyph.numberOfContours = 0 =>
        /\ PathGlyph.points = <<>>
        /\ <<PathGlyph.xMin, PathGlyph.yMin, PathGlyph.xMax, PathGlyph.yMax>> = <<0, 0, 0, 0>>
        /\ fnOut.v.path.ok
        /\ fnOut.v.path.v = <<>>

\* C19: for every glyph returned by the glyf decoder (simple or composite)
\* that has a non-empty point list, the number of points whose
\* last-of-contour flag is set equals the glyph's declared number of
\* contours, and the final point of the list has that flag set.
C19_ContourFlags ==
    GlyfParsed =>
        \A i \in DOMAIN GlyphsOut :
            LET glyph == GlyphsOut[i]
            IN  glyph.hasPoints /\ glyph.points # <<>> =>
                    /\ Count(glyph.points, LAMBDA pt : pt.lastPointOfContour)
                           = glyph.numberOfContours
                    /\ glyph.points[Len(glyph.points)].lastPointOfContour

\* C20: for a glyph with n >= 1 contours, the path produced by the outline
\* builder contains exactly n close commands, one as the last command of
\* each contour's sub-path: each contour's moveTo is followed, before the
\* next moveTo, by its own close.
C20_ClosePerContour ==
    PathDone /\ PathGlyph.hasPoints /\ fnOut.v.path.ok =>
        LET commands == fnOut.v.path.v
            n == Len(getContours(PathGlyph).v)
        IN  n >= 1 =>
                /\ Count(commands, LAMBDA c : c.type = "Z") = n
                /\ Count(commands, LAMBDA c : c.type = "M") = n
                /\ commands[Len(commands)].type = "Z"
                /\ \A k \in 2..Len(commands) :
                       commands[k].type = "M" => commands[k - 1].type = "Z"

(***************************************************************************)
(* Properties of save.                                                     *)
(***************************************************************************)
SaveDone == fnPc = "done" /\ fnName = "save"

\* The unsigned 32-bit number the four bytes b hold, as limbs.
FieldOf(b) == W(b[1] * 256 + b[2], b[3] * 256 + b[4])

\* a + b = c modulo 2^32, on limbs.
SumsTo(a, b, c) ==
    /\ (a.lo + b.lo) % 65536 = c.lo
    /\ (a.hi + b.hi + (a.lo + b.lo) \div 65536) % 65536 = c.hi % 65536

\* C21: the checkSumAdjustment save stores into the head table is
\* 0xB1B0AFBA - C modulo 2^32, C being the checksum of the font encoded with
\* the field at its default, and the checkSumAdjustment field of the buffer
\* toBuffer produces holds that value as an unsigned 32-bit number: added to
\* C it gives 0xB1B0AFBA modulo 2^32.
C21_CheckSumAdjustment ==
    SaveDone =>
        /\ SumsTo(fnOut.v.headTable.checkSumAdjustment, fnArg.checkSum, Magic)
        /\ Len(fnOut.v.buffer) = 4
        /\ \A k \in 1..4 : fnOut.v.buffer[k] \in 0..255
        /\ SumsTo(FieldOf(fnOut.v.buffer), fnArg.checkSum, Magic)

\* The checksum is larger than 0xB1B0AFBA: the difference is negative and
\* the field holds it reduced modulo 2^32.
C21_Witness ==
    /\ SaveDone
    /\ fnArg.checkSum.hi > Magic.hi
    /\ fnOut.v.headTable.checkSumAdjustment.hi < 0
    /\ FieldOf(fnOut.v.buffer).hi >= 32768

(***************************************************************************)
(* Properties of the passes of parseGlyfTable.                             *)
(***************************************************************************)
GlyfReturned == fnName = "parseGlyfTable" /\ fnPc = "returned"
GlyfRaised == fnName = "parseGlyfTable" /\ fnPc = "raised"

\* The passes compute what parseGlyfTable computes.
GlyphList == fnOut.v.glyphs

PassesAgree ==
    GlyfReturned \/ GlyfRaised =>
        LET glyphs == parseGlyfTable(fnArg.data, fnArg.start, fnArg.loca)
        IN  /\ glyphs.ok = fnOut.ok
            /\ glyphs.msg = fnOut.msg
            /\ glyphs.ok => glyphs.v = GlyphList

\* Glyph i (1-based) of the result is a composite with a component that is
\* glyph k.
Refers(i, k) ==
    /\ GlyphList[i].isComposite
    /\ \E j \in DOMAIN GlyphList[i].components :
           GlyphList[i].components[j].glyphIndex = k - 1

\* C22: every call of parseGlyfTable on a finite buffer comes to an end: it
\* returns the glyph list or it raises, whatever the flag runs, the
\* more-components bits and the references between composites are.
C22_GlyfDecodingTerminates == (fnPc = "glyphs") ~> (GlyfReturned \/ GlyfRaised)

\* A table with a composite that refers to itself was decoded to the end.
C22_Witness ==
    /\ GlyfReturned
    /\ \E i \in DOMAIN GlyphList : Refers(i, i) /\ GlyphList[i].points # <<>>

\* So were two composites that refer to each other, and a component loop
\* that runs into the end of the buffer raised.
C22_MutualWitness ==
    /\ GlyfReturned
    /\ \E i, k \in DOMAIN GlyphList : i # k /\ Refers(i, k) /\ Refers(k, i)

C22_RunawayWitness ==
    /\ GlyfRaised
    /\ fnArg.records[Len(fnArg.records)].kind = "runaway"

(***************************************************************************)
(* Properties of fonts without the optional tables.                        *)
(***************************************************************************)
\* The tags of the table records of the font file.
TagsOf(in) == {in.records[i].tag : i \in DOMAIN in.records}

\* The offset the directory loop leaves for a tag: that of its last record.
LastOffset(in, tag) ==
    LET at == {i \in DOMAIN in.records : in.records[i].tag = tag}
    IN  IF at = {} THEN 0 ELSE in.records[CHOOSE i \in at : \A k \in at : k <= i].off

\* The file is whole, its version is one the entry point takes, and it has
\* outlines that decode: glyf and loca, or for parseBuffer a CFF table.
DecodableOutlines(in, entry) ==
    /\ in.cut = -1
    /\ entry = "parseBuffer" => in.version \in {<<0, 1, 0, 0>>, TagCodes.OTTO}
    /\ IF LastOffset(in, "glyf") # 0 /\ LastOffset(in, "loca") # 0
       THEN "glyf" \notin in.bad
       ELSE entry = "parseBuffer" /\ LastOffset(in, "cff") # 0 /\ "cff" \notin in.bad

KerningDone == fnPc = "done" /\ fnName \in {"getKerningValue", "Font.getKerningValue"}

\* C23: a font file with decodable outlines is parsed to a supported font
\* whichever of the kern, GPOS and name tables it lacks (the tables it has
\* being decodable); without a kern table the kerning pairs are the empty
\* mapping and getKerningValue returns 0 for every pair of glyphs.
C23_OptionalTables ==
    fontPc = "done" /\ DecodableOutlines(fontIn, fontEntry)
    /\ fontIn.bad \cap TagsOf(fontIn) \subseteq {"glyf", "cff"} =>
        /\ fontRes.returned
        /\ fontRes.supported
        /\ "kern" \notin TagsOf(fontIn) =>
               /\ fontRes.kerningPairs = "empty"
               /\ KerningDone => fnOut.ok /\ fnOut.v.kerningPairs = <<>> /\ fnOut.v.value = 0

\* A font with glyf and loca and none of kern, GPOS and name was parsed and
\* asked for a kerning value.
C23_Witness ==
    /\ fontPc = "done"
    /\ DecodableOutlines(fontIn, fontEntry)
    /\ TagsOf(fontIn) = {"glyf", "loca"}
    /\ KerningDone
    /\ fnArg.left.index = 1
    /\ fnArg.right.index = 2
    /\ fnOut.ok
    /\ fnOut.v.value = 0

(***************************************************************************)
(* Properties of the passes of glyphToPath.                                *)
(***************************************************************************)
PathReturned == fnName = "glyphToPath" /\ fnPc = "returned"

\* The passes compute what glyphToPath computes.
PathPassesAgree ==
    PathReturned => fnOut.v.commands = glyphToPath(fnArg.glyph, fnArg.tx, fnArg.ty).v

\* The pass the loops of glyphToPath are about to make: over a point behind
\* the first one of its contour, or behind the last point of a contour.
AtLaterPoint ==
    /\ fnName = "glyphToPath" /\ fnPc = "points"
    /\ fnOut.v.k <= Len(fnOut.v.contours)
    /\ fnOut.v.i \in 2..Len(fnOut.v.contours[fnOut.v.k])

AtContourEnd ==
    /\ fnName = "glyphToPath" /\ fnPc = "points"
    /\ fnOut.v.k <= Len(fnOut.v.contours)
    /\ fnOut.v.i > Len(fnOut.v.contours[fnOut.v.k])

\* The commands a step adds to the path.
Emitted == SubSeq(fnOut'.v.commands, Len(fnOut.v.commands) + 1, Len(fnOut'.v.commands))

\* What the rules give for the point the loop is at: the commands and the
\* pending control point behind it.
RuleOfPoint ==
    LET f == fnOut.v
        pt == f.contours[f.k][f.i]
        prev == f.contours[f.k][f.i - 1]
        pending == f.curvePt
    IN  CASE prev.onCurve /\ pt.onCurve ->
                 Emitted = <<LineTo(fnArg.tx, fnArg.ty, Doubled(pt))>>
          [] prev.onCurve /\ ~pt.onCurve ->
                 Emitted = <<>> /\ fnOut'.v.curvePt = CurvePt(Doubled(pt))
          [] ~prev.onCurve /\ ~pt.onCurve ->
                 /\ pending.set
                 /\ Emitted = <<QuadraticCurveTo(fnArg.tx, fnArg.ty, pending, MidPt(prev, pt))>>
                 /\ fnOut'.v.curvePt = CurvePt(Doubled(pt))
          [] OTHER ->
                 /\ pending.set
                 /\ Emitted = <<QuadraticCurveTo(fnArg.tx, fnArg.ty, pending, Doubled(pt))>>
                 /\ fnOut'.v.curvePt = NullPt

RuleOfContourEnd ==
    LET f == fnOut.v
        first == Doubled(f.contours[f.k][1])
    IN  Emitted = <<IF f.curvePt.set
                    THEN QuadraticCurveTo(fnArg.tx, fnArg.ty, f.curvePt, first)
                    ELSE LineTo(fnArg.tx, fnArg.ty, first)>>

\* C24: within a contour, for each point pt behind the first with
\* predecessor prev: on->on emits a line to pt; on->off emits nothing and
\* makes pt the pending control point; off->off emits a quadratic whose
\* control point is the pending control point and whose end is the midpoint
\* of prev and pt, then makes pt pending; off->on emits a quadratic with the
\* pending control point ending at pt and clears it; behind the last point a
\* quadratic to the first point of the contour is emitted if a control point
\* is pending and a line to it otherwise; no quadratic has an undefined
\* control point.
C24_OutlineRules ==
    [][/\ AtLaterPoint => RuleOfPoint
       /\ AtContourEnd => RuleOfContourEnd]_vars

\* The rules hold wherever prev is not an off-curve first point of its
\* contour.
OutlineRulesBehindFirst ==
    [][/\ AtLaterPoint /\ (fnOut.v.i > 2 \/ fnOut.v.contours[fnOut.v.k][1].onCurve)
              => RuleOfPoint
       /\ AtContourEnd => RuleOfContourEnd]_vars

\* The index of the command that ends the sub-path the moveTo at index m
\* starts: the last one before the next moveTo or closePath.
SubPathEnd(commands, m) ==
    LET stops == {n \in (m + 1)..Len(commands) : commands[n].type \in {"M", "Z"}}
    IN  (CHOOSE n \in stops : \A o \in stops : n <= o) - 1

\* The index of the moveTo of contour k: the k-th moveTo of the path.
MoveOf(commands, k) ==
    CHOOSE m \in DOMAIN commands :
        /\ commands[m].type = "M"
        /\ Cardinality({n \in 1..m : commands[n].type = "M"}) = k

\* The point at which the sub-path of a contour is to start: its first
\* point when that is on-curve, the midpoint of its first and last point
\* otherwise (coordinates doubled).
StartOf(contour) ==
    IF contour[1].onCurve THEN Doubled(contour[1])
    ELSE MidPt(contour[Len(contour)], contour[1])

\* C25: the sub-path glyphToPath emits for a contour ends at the coordinates
\* at which its moveTo started: the first point when it is on-curve, the
\* midpoint of the first and the last point when it is off-curve.
C25_SubPathsReturn ==
    PathReturned =>
        \A k \in DOMAIN fnOut.v.contours :
            LET commands == fnOut.v.commands
                m == MoveOf(commands, k)
                e == SubPathEnd(commands, m)
                start == MoveTo(fnArg.tx, fnArg.ty, StartOf(fnOut.v.contours[k]))
            IN  /\ commands[m] = start
                /\ commands[e].x = start.x
                /\ commands[e].y = start.y

\* The sub-paths of the contours whose first point is on-curve do.
OnCurveSubPathsReturn ==
    PathReturned =>
        \A k \in DOMAIN fnOut.v.contours :
            fnOut.v.contours[k][1].onCurve =>
                LET commands == fnOut.v.commands
                    m == MoveOf(commands, k)
                    e == SubPathEnd(commands, m)
                IN  /\ commands[m] = MoveTo(fnArg.tx, fnArg.ty, StartOf(fnOut.v.contours[k]))
                    /\ commands[e].x = commands[m].x
                    /\ commands[e].y = commands[m].y

(***************************************************************************)
(* Properties of composites of composites.                                 *)
(***************************************************************************)
\* Glyph g (1-based) is a composite all of whose components are simple
\* glyphs of the table.
CompositeOfSimples(g) ==
    /\ g \in DOMAIN GlyphsOut
    /\ fnArg.records[g].kind = "composite"
    /\ SimpleTargets(g) = DOMAIN GlyphsOut[g].components

\* The resolved points of such a glyph: those of its components, translated.
ResolvedPoints(g) == Flat(TranslatedInOrder(g))

\* The points of glyph g moved by the offsets of a component.
Moved(points, component) ==
    [k \in DOMAIN points |->
         Point(points[k].x + component.dx, points[k].y + component.dy,
               points[k].onCurve, points[k].lastPointOfContour)]

\* Component j of glyph i is a composite of simple glyphs with points.
NestedComponents(i) ==
    {j \in DOMAIN GlyphsOut[i].components :
         LET g == GlyphsOut[i].components[j].glyphIndex + 1
         IN  g # i /\ CompositeOfSimples(g) /\ ResolvedPoints(g) # <<>>}

\* C26: a composite glyph whose component is itself a composite glyph holds
\* that component's fully resolved points, translated by the component's
\* dx and dy, whether the index of the component glyph is lower or higher
\* than its own.
C26_NestedComposites ==
    GlyfParsed =>
        \A i \in DOMAIN GlyphsOut :
            GlyphsOut[i].isComposite =>
                \A j \in NestedComponents(i) :
                    LET component == GlyphsOut[i].components[j]
                    IN  Embedded(GlyphsOut[i].points,
                                 <<Moved(ResolvedPoints(component.glyphIndex + 1), component)>>,
                                 0)

\* It does when the index of the component glyph is the lower one.
LowerNestedComposites ==
    GlyfParsed =>
        \A i \in DOMAIN GlyphsOut :
            GlyphsOut[i].isComposite =>
                \A j \in NestedComponents(i) :
                    LET component == GlyphsOut[i].components[j]
                    IN  component.glyphIndex + 1 < i =>
                            Embedded(GlyphsOut[i].points,
                                     <<Moved(ResolvedPoints(component.glyphIndex + 1),
                                             component)>>,
                                     0)

LowerNestedReached ==
    /\ GlyfParsed
    /\ \E i \in DOMAIN GlyphsOut :
           /\ GlyphsOut[i].isComposite
           /\ \E j \in NestedComponents(i) : GlyphsOut[i].components[j].glyphIndex + 1 < i

(***************************************************************************)
(* Properties of the offset array of encode.INDEX.                         *)
(***************************************************************************)
\* Offset n is held by s bytes; no offset modelled needs more than three.
Holds(s, n) == s >= 4 \/ n < (IF s = 1 THEN 256 ELSE IF s = 2 THEN 65536 ELSE 16777216)

\* C27: for a non-empty item list encode.INDEX returns, its k+1 offsets,
\* the first offset 1 included, take offSize bytes each, and offSize bytes
\* hold the final offset 1 + the length of the payload.
C27_OffsetSize ==
    (Returned("INDEX") /\ Len(encArg) > 0) =>
        /\ encOut.ok
        /\ LET offSize == encOut.v[3]
               payload == Len(Payload(encArg, 1, Len(encArg)))
           IN  /\ Len(encOut.v) = 3 + (Len(encArg) + 1) * offSize + payload
               /\ Holds(offSize, 1 + payload)

\* It does for fewer than 256 items of fewer than 255 bytes together.
SmallOffsetSize ==
    (/\ Returned("INDEX")
     /\ Len(encArg) \in 1..255
     /\ Len(Payload(encArg, 1, Len(encArg))) < 255) =>
        /\ encOut.ok
        /\ LET offSize == encOut.v[3]
               payload == Len(Payload(encArg, 1, Len(encArg)))
           IN  /\ Len(encOut.v) = 3 + (Len(encArg) + 1) * offSize + payload
               /\ Holds(offSize, 1 + payload)

\* A list of 256 items is returned with offsets of unequal width.
ManyItemsReturned ==
    ~(Returned("INDEX") /\ Len(encArg) = 256 /\ encOut.ok)

(***************************************************************************)
(* Properties of the string IDs.                                           *)
(***************************************************************************)
SidCalls == fnOut.v

\* C28: on one strings list, every call for a string returns the SID that
\* the first call for it returned, a string is stored in the list at most
\* once, and two different strings never get the same SID.
C28_StableUniqueSIDs ==
    (fnName = "encode.SID") =>
        /\ \A i, j \in DOMAIN SidCalls :
               SidCalls[i].v = SidCalls[j].v <=> SidCalls[i].sid = SidCalls[j].sid
        /\ \A a, b \in DOMAIN fnArg : fnArg[a] = fnArg[b] => a = b

\* A string is stored in the list at most once, and the SIDs of the calls
\* that add no string are those of the positions in the two lists.
StoredOnce ==
    (fnName = "encode.SID") =>
        /\ \A a, b \in DOMAIN fnArg : fnArg[a] = fnArg[b] => a = b
        /\ \A a \in DOMAIN fnArg : indexOf(cffStandardStrings, fnArg[a]) = -1

\* The call that adds a string returns one more than every later call.
AddedThenFound ==
    /\ fnName = "encode.SID"
    /\ \E i, j \in DOMAIN SidCalls :
           /\ i < j
           /\ SidCalls[i].v = "alpha"
           /\ SidCalls[j].v = "alpha"
           /\ SidCalls[i].sid = SidCalls[j].sid + 1

(***************************************************************************)
(* Properties of the arguments of getKerningValue.                         *)
(***************************************************************************)
KernAnyDone ==
    /\ fnPc = "done"
    /\ fnName \in {"getKerningValue", "Font.getKerningValue"}

\* The value the table of the call lists for the glyph indices of the call,
\* which is what the call made with the two integer indices returns.
ValueForIndices ==
    LET listed == Listed(fnArg.left.index, fnArg.right.index)
    IN  IF listed = {} THEN 0 ELSE fnArg.pairList[CHOOSE i \in listed : TRUE].value

\* C29: getKerningValue returns the same value whether a glyph is passed
\* as its integer index or as a glyph object carrying that index, for
\* every glyph index, 0 included.
C29_IndexOrObject ==
    KernAnyDone => fnOut.v.value = ValueForIndices

\* It does for glyph objects whose index is not 0.
NonZeroIndexOrObject ==
    (/\ KernAnyDone
     /\ fnArg.left.object => fnArg.left.index # 0
     /\ fnArg.right.object => fnArg.right.index # 0) =>
        fnOut.v.value = ValueForIndices

ObjectsReached ==
    /\ KernAnyDone
    /\ fnArg.left.object
    /\ fnArg.right.object
    /\ fnOut.v.value = -50

(***************************************************************************)
(* Properties of failed Parser reads.                                      *)
(***************************************************************************)
ReadRaised ==
    /\ lastOp \in {"parse", "parseByte", "parseUShort", "parseShort", "parseULong"}
    /\ ~lastRes.ok

\* C30: a Parser read that raises because its field extends past the end
\* of the buffer leaves the relative cursor where it was when the read
\* started, so a later read starts from that position.
C30_FailedReadKeepsCursor ==
    ReadRaised => pRelativeOffset = lastStart

C30_Witness ==
    /\ ReadRaised
    /\ lastOp = "parseULong"
    /\ consumed = 2
    /\ lastStart = 2
    /\ pRelativeOffset = 2
    /\ pOffset + pRelativeOffset + 4 > Len(pDataView)
    /\ pOffset + pRelativeOffset < Len(pDataView)

====
